---- MODULE Spec2Model ----
(***************************************************************************)
(* Grid trading front end (React), its exchange clients and its proxy.     *)
(*                                                                         *)
(* The model has one set of variables and several specifications, one per  *)
(* part of the program:                                                    *)
(*   SpecLevels   the level computation of useGridSettings, applied to     *)
(*                configurations drawn from bounded sets;                  *)
(*   SpecSettings the settings hook, the settings forms and their storage; *)
(*   SpecApi      credentials, localStorage, logs, the exchange clients    *)
(*                and the proxy server;                                    *)
(*   SpecEngine   start/stop, price observations and orders.               *)
(*                                                                         *)
(* JavaScript numbers are IEEE-754 doubles.  The level computation is      *)
(* modelled with correctly rounded double arithmetic (53-bit significand,  *)
(* round to nearest, ties to even) on limb sequences, because TLC integers *)
(* are 32 bits wide.                                                       *)
(***************************************************************************)
EXTENDS Integers, Sequences, FiniteSets, TLC

VARIABLES
  settings,             \* useGridSettings: the hook's GridSettings
  isDirty,              \* useGridSettings: settings changed since the last save
  autosaveTimer,        \* useGridSettings: the pending 1000 ms autosave timer, as
                        \* the settings its saveSettings closure holds (NoTimer
                        \* when none is pending)
  gridBotSettings,      \* localStorage item 'gridBotSettings' (NoItem when absent)
  localSettings,        \* App: the settings form's GridSettings
  calculatedGridLines,  \* App: calculateGridLines() of the last render
  gridLines,            \* App: the gridLines state
  initialSettings,      \* useGridSettings: the hook's argument (a partial
                        \* GridSettings, <<>> when none is passed)
  optimisationTimer,    \* App: the pending 2000 ms timer of the optimisation,
                        \* as the gridSettings its closure holds
  apiSettings,          \* App: the ApiSettings form state
  gridBotApiSettings,   \* localStorage item 'gridBotApiSettings'
  binanceApiStore,      \* localStorage items 'binanceApiKey', 'binanceApiSecret',
                        \* 'binanceTestMode'
  binanceClient,        \* App: the BinanceApiClient in use (<<>> for null)
  clientEffectPending,  \* App: the client initialisation effect is due to run
  balance,              \* App: the balance state
  mountError,           \* App: the first render threw (nothing is mounted)
  sentRequests,         \* requests sent to an exchange host by the last step
  consoleLog,           \* browser console lines written by the last step
  proxyRequest,         \* server.js: the request the proxy accepted last
  proxyLog,             \* server.js: console lines written by the last step
  isRunning,            \* App: the bot is started
  priceHistory,         \* App: the prices of the last fetchPriceData
  activeOrders,         \* App: the orders the bot lists as active
  orderRequests,        \* createOrder / cancelOrder requests sent by the last step
  alertMessage,         \* the alert shown by the last step (NoAlert for none)
  exchangeOpenOrders,   \* the orders open in the exchange account
  breachedThisRun,      \* history: a breach was observed since the bot started
  calls,                \* the calls made on an exchange client, in call order
  wire,                 \* the requests those calls have put on the wire
  orders,               \* the Order objects createOrder has returned, by orderId
  clock,                \* Date.now()
  facadeCalls,          \* the calls made on the api facade, in call order
  localValue,           \* useGridField: the text shown in the input
  initialValue,         \* useGridField: the value the parent passes
  updateTimeoutRef,     \* useGridField: the timer the ref points to
  pendingTimers,        \* the debounce timers set and neither fired nor cleared
  isMountedRef,         \* useGridField: isMountedRef.current
  typedCount,           \* number of handleChange events so far
  shownTyped,           \* the handleChange event whose value localValue shows
                        \* (0 when it shows a value that was not typed)
  delivered             \* history: the onChange calls made to the parent

gridVars ==
  <<settings, isDirty, autosaveTimer, gridBotSettings, localSettings,
    calculatedGridLines, gridLines, initialSettings, optimisationTimer>>

apiVars ==
  <<apiSettings, gridBotApiSettings, binanceApiStore, binanceClient,
    clientEffectPending, sentRequests, consoleLog, proxyRequest, proxyLog,
    balance, mountError>>

\* isRunning, priceHistory and activeOrders are state of GridTradingSystem;
\* orderRequests are the order requests (createOrder, cancelOrder) sent in
\* the last step, alertMessage the last alert shown.  exchangeOpenOrders
\* are the orders open in the exchange account, which the program does not
\* read.  breachedThisRun is a history variable: a price at or beyond
\* stopLoss or takeProfitLevel has been observed since the bot was started.
engineVars ==
  <<isRunning, priceHistory, activeOrders, orderRequests, alertMessage,
    exchangeOpenOrders, breachedThisRun>>

\* the exchange clients taken by themselves, driven by any caller
callVars ==
  <<calls, wire, orders, clock>>

\* the api facade taken by itself
facadeVars ==
  <<facadeCalls>>

\* one input field of SettingsForm (one useGridField instance)
fieldVars ==
  <<localValue, initialValue, updateTimeoutRef, pendingTimers, isMountedRef,
    typedCount, shownTyped, delivered>>

vars ==
  <<gridVars, apiVars, engineVars, callVars, facadeVars, fieldVars>>

(***************************************************************************)
(* Natural numbers of any size as sequences of 12-bit limbs, most          *)
(* significant limb first, without leading zero limbs.                     *)
(***************************************************************************)
Limb ==
  2^12

RECURSIVE NatLimbs(_)
NatLimbs(n) ==
  IF n = 0 THEN <<>> ELSE Append(NatLimbs(n \div Limb), n % Limb)

RECURSIVE StripZeros(_)
StripZeros(b) ==
  IF b = <<>> THEN <<>>
  ELSE IF b[1] = 0 THEN StripZeros(Tail(b)) ELSE b

Zeros(k) ==
  [i \in 1..k |-> 0]

PadLeft(b, n) ==
  Zeros(n - Len(b)) \o b

\* a + b + c over the low i limbs of two sequences of equal length
RECURSIVE AddStep(_, _, _, _)
AddStep(a, b, i, c) ==
  IF i = 0 THEN (IF c = 1 THEN <<1>> ELSE <<>>)
  ELSE LET t == a[i] + b[i] + c
       IN  Append(AddStep(a, b, i - 1, t \div Limb), t % Limb)

LimbsAdd(a, b) ==
  LET n == IF Len(a) > Len(b) THEN Len(a) ELSE Len(b)
  IN  AddStep(PadLeft(a, n), PadLeft(b, n), n, 0)

\* a - b - c over the low i limbs, for a >= b
RECURSIVE SubStep(_, _, _, _)
SubStep(a, b, i, c) ==
  IF i = 0 THEN <<>>
  ELSE LET t == a[i] - b[i] - c
       IN  Append(SubStep(a, b, i - 1, IF t < 0 THEN 1 ELSE 0),
                  IF t < 0 THEN t + Limb ELSE t)

LimbsSub(a, b) ==
  LET n == IF Len(a) > Len(b) THEN Len(a) ELSE Len(b)
  IN  StripZeros(SubStep(PadLeft(a, n), PadLeft(b, n), n, 0))

\* -1, 0, 1 as a < b, a = b, a > b
LimbsCmp(a, b) ==
  IF Len(a) # Len(b) THEN (IF Len(a) < Len(b) THEN -1 ELSE 1)
  ELSE LET D == {i \in 1..Len(a) : a[i] # b[i]}
       IN  IF D = {} THEN 0
           ELSE LET i == CHOOSE j \in D : \A k \in D : j <= k
                IN  IF a[i] < b[i] THEN -1 ELSE 1

\* b * k for a natural k below 2^15
RECURSIVE MulStep(_, _, _, _)
MulStep(b, i, k, c) ==
  IF i = 0 THEN NatLimbs(c)
  ELSE LET t == b[i] * k + c
       IN  Append(MulStep(b, i - 1, k, t \div Limb), t % Limb)

LimbsMulSmall(b, k) ==
  StripZeros(MulStep(b, Len(b), k, 0))

\* quotient and remainder of the first i limbs of b by n, 0 < n < 2^15
RECURSIVE DivStep(_, _, _)
DivStep(b, i, n) ==
  IF i = 0 THEN [q |-> <<>>, r |-> 0]
  ELSE LET p == DivStep(b, i - 1, n)
           t == p.r * Limb + b[i]
       IN  [q |-> Append(p.q, t \div n), r |-> t % n]

LimbsDivSmall(b, n) ==
  LET d == DivStep(b, Len(b), n)
  IN  [q |-> StripZeros(d.q), r |-> d.r]

\* number of bits of b
BitLen(b) ==
  IF b = <<>> THEN 0
  ELSE 12 * (Len(b) - 1) + (CHOOSE j \in 1..12 : 2^(j - 1) <= b[1] /\ b[1] < 2^j)

\* b * 2^k
ShiftLeft(b, k) ==
  IF b = <<>> THEN <<>>
  ELSE LimbsMulSmall(b, 2^(k % 12)) \o Zeros(k \div 12)

\* b \div 2^k, and whether a non-zero bit was shifted out
ShiftRight(b, k) ==
  LET w    == k \div 12
      keep == IF w >= Len(b) THEN <<>> ELSE SubSeq(b, 1, Len(b) - w)
      lost == \E i \in (Len(b) - w + 1)..Len(b) : i >= 1 /\ b[i] # 0
      d    == LimbsDivSmall(keep, 2^(k % 12))
  IN  [q |-> d.q, sticky |-> lost \/ d.r # 0]

(***************************************************************************)
(* Doubles.  A finite non-zero double is sign s, a 53-bit significand m    *)
(* (2^52 <= m < 2^53, as limbs) and the exponent e of its last bit:        *)
(* s * m * 2^e.                                                            *)
(***************************************************************************)
NaN ==
  [k |-> "nan", s |-> 1, m |-> <<>>, e |-> 0]

Infinity(s) ==
  [k |-> "inf", s |-> s, m |-> <<>>, e |-> 0]

Zero ==
  [k |-> "zero", s |-> 1, m |-> <<>>, e |-> 0]

Finite(s, m, e) ==
  [k |-> "fin", s |-> s, m |-> m, e |-> e]

Sign(n) ==
  IF n < 0 THEN -1 ELSE 1

Abs(n) ==
  IF n < 0 THEN -n ELSE n

\* The double nearest to s * b * 2^e (ties to even); sticky tells that the
\* exact value has further non-zero bits below the last bit of b.
RoundToDouble(s, b, e, sticky) ==
  LET L == BitLen(b)
      P == 53
  IN  IF L = 0 THEN Zero
      ELSE IF L <= P THEN Finite(s, ShiftLeft(b, P - L), e - (P - L))
      ELSE LET x    == ShiftRight(b, L - P - 1)
               top  == LimbsDivSmall(x.q, 2).q
               g    == x.q[Len(x.q)] % 2
               rest == sticky \/ x.sticky
               up   == g = 1 /\ (rest \/ top[Len(top)] % 2 = 1)
               inc  == LimbsAdd(top, <<1>>)
           IN  IF ~up THEN Finite(s, top, e + (L - P))
               ELSE IF BitLen(inc) = P + 1
                    THEN Finite(s, LimbsDivSmall(inc, 2).q, e + (L - P) + 1)
                    ELSE Finite(s, inc, e + (L - P))

\* an integer of magnitude below 2^31 is a double exactly
FromInt(n) ==
  RoundToDouble(Sign(n), NatLimbs(Abs(n)), 0, FALSE)

fneg(a) ==
  [a EXCEPT !.s = IF a.k \in {"fin", "inf"} THEN -a.s ELSE a.s]

\* a + b
fadd(a, b) ==
  IF a.k = "nan" \/ b.k = "nan" THEN NaN
  ELSE IF a.k = "inf"
       THEN (IF b.k = "inf" /\ b.s # a.s THEN NaN ELSE a)
  ELSE IF b.k = "inf" THEN b
  ELSE IF a.k = "zero" THEN b
  ELSE IF b.k = "zero" THEN a
  ELSE LET e0 == IF a.e < b.e THEN a.e ELSE b.e
           A  == ShiftLeft(a.m, a.e - e0)
           B  == ShiftLeft(b.m, b.e - e0)
           c  == LimbsCmp(A, B)
       IN  IF a.s = b.s THEN RoundToDouble(a.s, LimbsAdd(A, B), e0, FALSE)
           ELSE IF c = 0 THEN Zero
           ELSE IF c > 0 THEN RoundToDouble(a.s, LimbsSub(A, B), e0, FALSE)
           ELSE RoundToDouble(b.s, LimbsSub(B, A), e0, FALSE)

\* a / n for an integer-valued divisor n, |n| < 2^15 (n = 0 is the double +0)
fdivInt(a, n) ==
  IF a.k = "nan" THEN NaN
  ELSE IF n = 0 THEN (IF a.k = "zero" THEN NaN ELSE Infinity(a.s))
  ELSE IF a.k = "inf" THEN Infinity(a.s * Sign(n))
  ELSE IF a.k = "zero" THEN Zero
  ELSE LET guard == 72
           d     == LimbsDivSmall(ShiftLeft(a.m, guard), Abs(n))
       IN  RoundToDouble(a.s * Sign(n), d.q, a.e - guard, d.r # 0)

\* a * i for an integer-valued factor i, |i| < 2^15
fmulInt(a, i) ==
  IF a.k = "nan" THEN NaN
  ELSE IF a.k = "inf" THEN (IF i = 0 THEN NaN ELSE Infinity(a.s * Sign(i)))
  ELSE IF a.k = "zero" \/ i = 0 THEN Zero
  ELSE RoundToDouble(a.s * Sign(i), LimbsMulSmall(a.m, Abs(i)), a.e, FALSE)

\* a < b and a === b of JavaScript
flt(a, b) ==
  IF a.k = "nan" \/ b.k = "nan" THEN FALSE
  ELSE LET d == fadd(a, fneg(b))
       IN  d.k \in {"fin", "inf"} /\ d.s = -1

feq(a, b) ==
  a.k # "nan" /\ b.k # "nan" /\ a = b

fsub(a, b) ==
  fadd(a, fneg(b))

fabs(a) ==
  [a EXCEPT !.s = 1]

\* |a - b| <= |b| * 2^(-k), for finite non-zero b
WithinRounding(a, b, k) ==
  LET err == fabs(fsub(a, b))
      tol == [fabs(b) EXCEPT !.e = @ - k]
  IN  err.k # "nan" /\ ~flt(tol, err)

(***************************************************************************)
(* useGridSettings: the settings and the level computation.                *)
(***************************************************************************)
\* localStorage.getItem of an absent key; a stored value v is <<v>>
NoItem ==
  <<>>

\* no autosave timer is pending; a pending timer is <<settings it will save>>
NoTimer ==
  <<>>

defaultSettings ==
  [upperLimit |-> 30000, lowerLimit |-> 25000, gridNumber |-> 10,
   initialInvestment |-> 1000, stopLoss |-> 24000, takeProfitLevel |-> 31000]

\* (upperLimit - lowerLimit) / gridNumber; the limits are integers below
\* 2^31, so their difference is a double exactly
calculateGridInterval(s) ==
  fdivInt(FromInt(s.upperLimit - s.lowerLimit), s.gridNumber)

\* calculateGridLines with the interval taken over gridNumber + 1 steps
calculateGridLinesFencepost(s) ==
  LET interval == fdivInt(FromInt(s.upperLimit - s.lowerLimit), s.gridNumber + 1)
      length   == IF s.gridNumber + 1 > 0 THEN s.gridNumber + 1 ELSE 0
  IN  [i \in 1..length |-> fadd(FromInt(s.lowerLimit), fmulInt(interval, i - 1))]

\* calculateGridLines with one level too few
calculateGridLinesShort(s) ==
  LET interval == fdivInt(FromInt(s.upperLimit - s.lowerLimit), s.gridNumber)
      length   == IF s.gridNumber > 0 THEN s.gridNumber ELSE 0
  IN  [i \in 1..length |-> fadd(FromInt(s.lowerLimit), fmulInt(interval, i - 1))]

\* Array.from({length: gridNumber + 1}, (_, i) => lowerLimit + interval * i);
\* a length that is not positive gives the empty array
calculateGridLines(s) ==
  LET interval == fdivInt(FromInt(s.upperLimit - s.lowerLimit), s.gridNumber)
      length   == IF s.gridNumber + 1 > 0 THEN s.gridNumber + 1 ELSE 0
  IN  [i \in 1..length |-> fadd(FromInt(s.lowerLimit), fmulInt(interval, i - 1))]

\* the configurations the spec calls valid
ValidConfiguration(s) ==
  s.upperLimit > s.lowerLimit /\ s.gridNumber >= 1

(***************************************************************************)
(* Credentials, the exchange client and the proxy server.                  *)
(***************************************************************************)
TEST_API_BASE_URL ==
  "https://testnet.binance.vision/api/v3"

MAIN_API_BASE_URL ==
  "https://api.binance.com/api/v3"

\* server.js
BINANCE_API_URL ==
  "https://api.binance.com"

\* the production exchange, as the client and as the proxy address it
ProductionUrls ==
  {MAIN_API_BASE_URL, BINANCE_API_URL}

\* the state of the ApiSettings form when nothing is saved
defaultApiSettings ==
  [exchange |-> "binance", apiKey |-> "", apiSecret |-> "", testMode |-> TRUE]

\* a console line: its message and the credential strings printed in it
\* (lengths, flags and status codes print no string of the credentials)
LogLine(message, strings) ==
  [message |-> message, strings |-> strings]

\* a request on the wire to an exchange host; testMode is the form's
\* testMode at the moment the request is sent
Request(by, base, path, apiKeyHeader, testMode) ==
  [by |-> by, base |-> base, path |-> path, apiKeyHeader |-> apiKeyHeader,
   testMode |-> testMode]

\* new BinanceApiClient(config)
NewClient(config) ==
  [apiKey |-> config.apiKey, apiSecret |-> config.apiSecret,
   baseUrl |-> IF config.testMode THEN TEST_API_BASE_URL ELSE MAIN_API_BASE_URL]

\* the constructor's debug line: the lengths of key and secret, testMode
ConstructorLog ==
  LogLine("[BinanceAPI] BinanceApiClient init", {})

ApiAtMount ==
  /\ apiSettings = defaultApiSettings
  /\ gridBotApiSettings = NoItem
  /\ binanceApiStore = NoItem
  /\ binanceClient = <<>>
  /\ clientEffectPending = TRUE
  /\ sentRequests = <<>>
  /\ consoleLog = {}
  /\ proxyRequest = <<>>
  /\ proxyLog = {}
  /\ balance = [base |-> 0, quote |-> 0]
  /\ mountError = FALSE

NoAlert ==
  "none"

\* toString of a non-negative integer, as a sequence of characters
RECURSIVE NumberToString(_)
NumberToString(n) ==
  IF n < 10 THEN <<<<"0", "1", "2", "3", "4", "5", "6", "7", "8", "9">>[n + 1]>>
  ELSE NumberToString(n \div 10) \o NumberToString(n % 10)

\* the value the parent passes to the field at first (localSettings.gridNumber
\* and the like)
FieldInitialValue ==
  1000

\* useGridField at mount: useState(initialValue.toString()), the refs; no
\* timer is set
FieldAtMount ==
  /\ localValue = NumberToString(FieldInitialValue)
  /\ initialValue = FieldInitialValue
  /\ updateTimeoutRef = NoTimer
  /\ pendingTimers = {}
  /\ isMountedRef = TRUE
  /\ typedCount = 0
  /\ shownTyped = 0
  /\ delivered = <<>>

\* no call has been made on a client; orders is the empty function
CallsAtMount ==
  /\ calls = <<>>
  /\ wire = <<>>
  /\ orders = <<>>
  /\ clock = 0
  /\ facadeCalls = <<>>
  /\ FieldAtMount

EngineAtMount ==
  /\ CallsAtMount
  /\ isRunning = FALSE
  /\ priceHistory = <<>>
  /\ activeOrders = <<>>
  /\ orderRequests = <<>>
  /\ alertMessage = NoAlert
  /\ exchangeOpenOrders = {}
  /\ breachedThisRun = FALSE

ApiKeys ==
  {"", "K1"}

ApiSecrets ==
  {"", "S1"}

ProxyUntouched ==
  UNCHANGED <<proxyRequest, proxyLog>>

\* onChange of the key, secret and test-mode inputs: setApiSettings; the
\* client initialisation effect depends on the three values
SetApiSettings(field, value) ==
  /\ apiSettings' = [apiSettings EXCEPT ![field] = value]
  /\ clientEffectPending' = (clientEffectPending \/ apiSettings[field] # value)
  /\ sentRequests' = <<>>
  /\ consoleLog' = {}
  /\ UNCHANGED <<gridBotApiSettings, binanceApiStore, binanceClient>>
  /\ UNCHANGED <<balance, mountError>>
  /\ ProxyUntouched
  /\ UNCHANGED <<gridVars, engineVars, callVars, facadeVars, fieldVars>>

\* balances getAccountBalance returns: parseFloat of the free amounts of
\* the BTC and USDT rows of the answer ('0' for a missing row)
ExchangeBalances ==
  {[base |-> 0, quote |-> 0], [base |-> 1, quote |-> 500]}

\* what fetchBalance writes to the console when the balance request fails:
\* the client's and fetchBalance's own console.error and handleApiError's,
\* which also alerts the operator
BalanceFailureLog ==
  {LogLine("Starting balance fetch...", {}),
   LogLine("[BinanceAPI Error] HTTP error! status", {}),
   LogLine("Error in fetchBalance", {}),
   LogLine("Error in balance fetch (handleApiError, alert)", {})}

\* the client initialisation effect with a failed balance fetch clearing
\* the balance
ClientInitEffectClearsBalance(exchangeAnswers) ==
  /\ clientEffectPending
  /\ IF apiSettings.apiKey # "" /\ apiSettings.apiSecret # ""
     THEN /\ binanceClient' = <<NewClient(apiSettings)>>
          /\ clientEffectPending' = TRUE
          /\ IF binanceClient = <<>>
             THEN /\ sentRequests' = <<>>
                  /\ consoleLog' =
                       {LogLine("Initializing Binance client with settings", {}),
                        ConstructorLog,
                        LogLine("Binance client initialized successfully", {}),
                        LogLine("Binance client is not initialized", {})}
             ELSE /\ sentRequests' =
                       <<Request("client", binanceClient[1].baseUrl, "/balance",
                                 "", apiSettings.testMode)>>
                  /\ consoleLog' =
                       {LogLine("Initializing Binance client with settings", {}),
                        ConstructorLog,
                        LogLine("Binance client initialized successfully", {})}
                       \cup (IF exchangeAnswers
                             THEN {LogLine("Starting balance fetch...", {}),
                                   LogLine("Balance fetched successfully", {})}
                             ELSE BalanceFailureLog)
     ELSE /\ clientEffectPending' = FALSE
          /\ sentRequests' = <<>>
          /\ consoleLog' = {LogLine("API settings are not complete", {})}
          /\ UNCHANGED binanceClient
  /\ IF apiSettings.apiKey # "" /\ apiSettings.apiSecret # ""
        /\ binanceClient # <<>> /\ exchangeAnswers
     THEN \E fetched \in ExchangeBalances : balance' = fetched
     ELSE balance' = [base |-> 0, quote |-> 0]
  /\ UNCHANGED <<apiSettings, gridBotApiSettings, binanceApiStore, mountError>>
  /\ ProxyUntouched
  /\ UNCHANGED <<gridVars, engineVars, callVars, facadeVars, fieldVars>>

\* the client initialisation effect.  With key and secret present it builds
\* a client, stores it with setBinanceClient and calls fetchBalance(), which
\* still closes over the client of this render (the one being replaced).
\* The new client changes fetchBalance, a dependency of the effect, so the
\* effect is due again.  The exchange's answer to the balance request is
\* taken in the same step; fetchBalance calls setBalance with a balance
\* that was fetched, and with nothing else.
ClientInitEffect(exchangeAnswers) ==
  /\ clientEffectPending
  /\ IF apiSettings.apiKey # "" /\ apiSettings.apiSecret # ""
     THEN /\ binanceClient' = <<NewClient(apiSettings)>>
          /\ clientEffectPending' = TRUE
          /\ IF binanceClient = <<>>
             THEN /\ sentRequests' = <<>>
                  /\ consoleLog' =
                       {LogLine("Initializing Binance client with settings", {}),
                        ConstructorLog,
                        LogLine("Binance client initialized successfully", {}),
                        LogLine("Binance client is not initialized", {})}
             ELSE /\ sentRequests' =
                       <<Request("client", binanceClient[1].baseUrl, "/balance",
                                 "", apiSettings.testMode)>>
                  /\ consoleLog' =
                       {LogLine("Initializing Binance client with settings", {}),
                        ConstructorLog,
                        LogLine("Binance client initialized successfully", {})}
                       \cup (IF exchangeAnswers
                             THEN {LogLine("Starting balance fetch...", {}),
                                   LogLine("Balance fetched successfully", {})}
                             ELSE BalanceFailureLog)
     ELSE /\ clientEffectPending' = FALSE
          /\ sentRequests' = <<>>
          /\ consoleLog' = {LogLine("API settings are not complete", {})}
          /\ UNCHANGED binanceClient
  /\ IF apiSettings.apiKey # "" /\ apiSettings.apiSecret # ""
        /\ binanceClient # <<>> /\ exchangeAnswers
     THEN \E fetched \in ExchangeBalances : balance' = fetched
     ELSE UNCHANGED balance
  /\ UNCHANGED <<apiSettings, gridBotApiSettings, binanceApiStore, mountError>>
  /\ ProxyUntouched
  /\ UNCHANGED <<gridVars, engineVars, callVars, facadeVars, fieldVars>>

\* the connection test button: a client is built and asked for the balance;
\* when the exchange answers, the whole apiSettings object is written to
\* localStorage and the client is kept
ConnectionTest(exchangeAnswers) ==
  /\ IF apiSettings.apiKey # "" /\ apiSettings.apiSecret # ""
     THEN /\ sentRequests' =
               <<Request("client", NewClient(apiSettings).baseUrl, "/balance",
                         "", apiSettings.testMode)>>
          /\ IF exchangeAnswers
             THEN /\ gridBotApiSettings' = <<apiSettings>>
                  /\ binanceClient' = <<NewClient(apiSettings)>>
                  /\ clientEffectPending' = TRUE
                  /\ consoleLog' = {ConstructorLog}
             ELSE /\ consoleLog' =
                       {ConstructorLog,
                        LogLine("[BinanceAPI Error] HTTP error! status", {}),
                        LogLine("Error in fetchBalance", {}),
                        LogLine("Error in API connection test", {})}
                  /\ UNCHANGED <<gridBotApiSettings, binanceClient,
                                 clientEffectPending>>
     ELSE /\ sentRequests' = <<>>
          /\ consoleLog' = {}
          /\ UNCHANGED <<gridBotApiSettings, binanceClient, clientEffectPending>>
  /\ UNCHANGED <<apiSettings, binanceApiStore, balance, mountError>>
  /\ ProxyUntouched
  /\ UNCHANGED <<gridVars, engineVars, callVars, facadeVars, fieldVars>>

\* the permanent save button: JSON.stringify(apiSettings) into localStorage
\* (setItem may throw, which handleApiError reports)
PermanentSave(stored) ==
  /\ IF apiSettings.apiKey # "" /\ apiSettings.apiSecret # ""
     THEN IF stored
          THEN gridBotApiSettings' = <<apiSettings>> /\ consoleLog' = {}
          ELSE /\ consoleLog' = {LogLine("Error in API settings save", {})}
               /\ UNCHANGED gridBotApiSettings
     ELSE consoleLog' = {} /\ UNCHANGED gridBotApiSettings
  /\ sentRequests' = <<>>
  /\ UNCHANGED <<apiSettings, binanceApiStore, binanceClient, clientEffectPending,
                 balance, mountError>>
  /\ ProxyUntouched
  /\ UNCHANGED <<gridVars, engineVars, callVars, facadeVars, fieldVars>>

\* handleApiSettingsSave: a client is built from the form as it is,
\* validateCredentials sends the signed account request with the key in
\* the X-MBX-APIKEY header, and valid credentials are written to three
\* localStorage items
handleApiSettingsSave(isValid) ==
  /\ isValid => (apiSettings.apiKey # "" /\ apiSettings.apiSecret # "")
  /\ sentRequests' =
       <<Request("client", NewClient(apiSettings).baseUrl, "/account",
                 apiSettings.apiKey, apiSettings.testMode)>>
  /\ IF isValid
     THEN /\ binanceApiStore' =
               <<[binanceApiKey |-> apiSettings.apiKey,
                  binanceApiSecret |-> apiSettings.apiSecret,
                  binanceTestMode |-> apiSettings.testMode]>>
          /\ binanceClient' = <<NewClient(apiSettings)>>
          /\ clientEffectPending' = TRUE
          /\ consoleLog' = {ConstructorLog}
     ELSE /\ consoleLog' =
               {ConstructorLog,
                LogLine("[BinanceAPI Error] authentication error", {}),
                LogLine("API settings error: key or secret invalid", {})}
          /\ UNCHANGED <<binanceApiStore, binanceClient, clientEffectPending>>
  /\ UNCHANGED <<apiSettings, gridBotApiSettings, balance, mountError>>
  /\ ProxyUntouched
  /\ UNCHANGED <<gridVars, engineVars, callVars, facadeVars, fieldVars>>

BrowserUntouched ==
  UNCHANGED <<apiSettings, gridBotApiSettings, binanceApiStore, binanceClient,
              clientEffectPending, consoleLog, balance, mountError>>

\* server.js GET /api/balance?apiKey=..&apiSecret=..: 400 when either is
\* missing; otherwise the proxy signs with the secret of the query and
\* forwards to BINANCE_API_URL with the key in the X-MBX-APIKEY header.
\* It logs the URL, the timestamp and the first ten characters of the
\* signature, then the response or the error.
ProxyBalance(apiKey, apiSecret, exchangeAnswers) ==
  /\ IF apiKey = "" \/ apiSecret = ""
     THEN /\ sentRequests' = <<>>
          /\ proxyLog' = {}
          /\ UNCHANGED proxyRequest
     ELSE /\ proxyRequest' =
               <<[route |-> "/api/balance", apiKey |-> apiKey,
                  apiSecret |-> apiSecret]>>
          /\ sentRequests' =
               <<Request("proxy", BINANCE_API_URL, "/api/v3/account", apiKey,
                         apiSettings.testMode)>>
          /\ proxyLog' =
               {LogLine("[ProxyServer] request prepared", {BINANCE_API_URL}),
                IF exchangeAnswers
                THEN LogLine("[ProxyServer] response", {})
                ELSE LogLine("[ProxyServer] error", {})}
  /\ BrowserUntouched
  /\ UNCHANGED <<gridVars, engineVars, callVars, facadeVars, fieldVars>>

\* server.js GET /api/price/:symbol: forwarded to BINANCE_API_URL
ProxyPrice(exchangeAnswers) ==
  /\ proxyRequest' = <<[route |-> "/api/price", apiKey |-> "", apiSecret |-> ""]>>
  /\ sentRequests' =
       <<Request("proxy", BINANCE_API_URL, "/api/v3/ticker/price", "",
                 apiSettings.testMode)>>
  /\ proxyLog' =
       {LogLine("[ProxyServer] price request", {}),
        IF exchangeAnswers
        THEN LogLine("[ProxyServer] price response", {})
        ELSE LogLine("[ProxyServer] price error", {})}
  /\ BrowserUntouched
  /\ UNCHANGED <<gridVars, engineVars, callVars, facadeVars, fieldVars>>

(***************************************************************************)
(* SpecLevels: the level computation applied to configurations drawn from  *)
(* bounded sets (settings typed into the forms, the defaults, the values   *)
(* the optimisation writes, and limits chosen to make rounding visible).   *)
(***************************************************************************)
LevelUpperLimits ==
  {29, 30000, 31500}

LevelLowerLimits ==
  {0, 500, 24500, 25000}

LevelGridNumbers ==
  {-1, 0, 1, 3, 7, 10, 14}

LevelConfigurations ==
  {[defaultSettings EXCEPT !.upperLimit = u, !.lowerLimit = l, !.gridNumber = n] :
     u \in LevelUpperLimits, l \in LevelLowerLimits, n \in LevelGridNumbers}

InitLevels ==
  /\ settings \in LevelConfigurations
  /\ isDirty = FALSE
  /\ autosaveTimer = NoTimer
  /\ gridLines = <<>>
  /\ initialSettings = <<>>
  /\ optimisationTimer = NoTimer
  /\ gridBotSettings = NoItem
  /\ localSettings = defaultSettings
  /\ calculatedGridLines = <<>>
  /\ ApiAtMount
  /\ EngineAtMount

\* App render: const calculatedGridLines = calculateGridLines()
RenderGridLines ==
  /\ calculatedGridLines' = calculateGridLines(settings)
  /\ UNCHANGED <<settings, isDirty, autosaveTimer, gridBotSettings, localSettings,
                 gridLines, initialSettings, optimisationTimer>>
  /\ UNCHANGED <<apiVars, engineVars, callVars, facadeVars, fieldVars>>

NextLevels ==
  RenderGridLines

SpecLevels ==
  InitLevels /\ [][NextLevels]_vars


(***************************************************************************)
(* SpecSettings: the settings hook, GridSettingsForm typing into it, and   *)
(* the autosave to localStorage.                                           *)
(***************************************************************************)
\* texts typed into a field of GridSettingsForm, as character sequences
TypedTexts ==
  {<<>>, <<"a", "b", "c">>, <<"0">>, <<"1", ",", "2">>, <<"-", "5">>}

FormFields ==
  {"upperLimit", "lowerLimit", "gridNumber"}

Digits ==
  {"0", "1", "2", "3", "4", "5", "6", "7", "8", "9"}

DigitValue(c) ==
  CHOOSE d \in 0..9 : <<"0", "1", "2", "3", "4", "5", "6", "7", "8", "9">>[d + 1] = c

\* value.replace(/,/g, '')
RemoveCommas(t) ==
  SelectSeq(t, LAMBDA c : c # ",")

\* the value of the longest prefix of digits of t, after the first i characters
RECURSIVE DigitPrefix(_, _, _)
DigitPrefix(t, i, acc) ==
  IF i > Len(t) \/ t[i] \notin Digits THEN acc
  ELSE DigitPrefix(t, i + 1, 10 * acc + DigitValue(t[i]))

\* parseFloat on texts without a fraction or an exponent: an optional sign
\* and the longest prefix of digits; NaN when there is no digit
parseFloat(t) ==
  LET neg   == Len(t) >= 1 /\ t[1] = "-"
      first == IF neg THEN 2 ELSE 1
  IN  IF first > Len(t) \/ t[first] \notin Digits
      THEN [isNaN |-> TRUE, value |-> 0]
      ELSE [isNaN |-> FALSE,
            value |-> (IF neg THEN -1 ELSE 1) * DigitPrefix(t, first, 0)]

\* { ...prev, ...newSettings } for a one-field newSettings
MergeField(prev, field, value) ==
  [prev EXCEPT ![field] = value]

InitSettings ==
  /\ settings = defaultSettings
  /\ isDirty = FALSE
  /\ autosaveTimer = NoTimer
  /\ gridLines = <<>>
  /\ initialSettings = <<>>
  /\ optimisationTimer = NoTimer
  /\ gridBotSettings = NoItem
  /\ localSettings = defaultSettings
  /\ calculatedGridLines = calculateGridLines(defaultSettings)
  /\ ApiAtMount
  /\ EngineAtMount

\* updateSettings with a pending autosave timer left as it is
updateSettingsTimerKept(field, value) ==
  /\ settings' = MergeField(settings, field, value)
  /\ isDirty' = TRUE
  /\ autosaveTimer' = IF autosaveTimer = NoTimer THEN <<settings'>>
                      ELSE autosaveTimer
  /\ calculatedGridLines' = calculateGridLines(settings')
  /\ UNCHANGED <<gridBotSettings, localSettings, gridLines, initialSettings,
                 optimisationTimer>>
  /\ UNCHANGED <<apiVars, engineVars, callVars, facadeVars, fieldVars>>

\* updateSettings({[field]: value}): the new settings are stored as they
\* are, isDirty is set, and the autosave effect (re)starts its timer; the
\* render that follows recomputes the levels
updateSettings(field, value) ==
  /\ settings' = MergeField(settings, field, value)
  /\ isDirty' = TRUE
  /\ autosaveTimer' = <<settings'>>
  /\ calculatedGridLines' = calculateGridLines(settings')
  /\ UNCHANGED <<gridBotSettings, localSettings, gridLines, initialSettings,
                 optimisationTimer>>
  /\ UNCHANGED <<apiVars, engineVars, callVars, facadeVars, fieldVars>>

\* GridSettingsForm.handleNumberInput(field, value), with onUpdate the
\* hook's updateSettings
handleNumberInput(field, text) ==
  LET numericValue == parseFloat(RemoveCommas(text))
  IN  IF text = <<>> \/ numericValue.isNaN
      THEN UNCHANGED vars
      ELSE updateSettings(field, numericValue.value)

\* the autosave timer fires: saveSettings() of the render that set the
\* timer writes the settings of that render; setItem may throw (quota), and
\* then isDirty stays set and no timer is left
AutosaveFires ==
  /\ ~mountError
  /\ autosaveTimer # NoTimer
  /\ autosaveTimer' = NoTimer
  /\ \/ gridBotSettings' = <<autosaveTimer[1]>> /\ isDirty' = FALSE
     \/ UNCHANGED <<gridBotSettings, isDirty>>
  /\ UNCHANGED <<settings, localSettings, calculatedGridLines, gridLines,
                 initialSettings, optimisationTimer>>
  /\ UNCHANGED <<apiVars, engineVars, callVars, facadeVars, fieldVars>>

NextSettings ==
  \/ \E field \in FormFields, text \in TypedTexts : handleNumberInput(field, text)
  \/ AutosaveFires

SpecSettings ==
  InitSettings /\ [][NextSettings]_vars

\* the autosave timer is a timer: once set it fires unless it is cleared
SpecSettingsFair ==
  SpecSettings /\ WF_vars(AutosaveFires)

\* C3: a configuration with gridNumber < 1 or upperLimit <= lowerLimit is
\* rejected where it is supplied: it is never accepted into the settings
\* state and never used to compute levels.
C3_InvalidConfigurationNeverAccepted ==
  ValidConfiguration(settings)


(***************************************************************************)
(* SpecApi: the credentials form, the client and the proxy.                *)
(***************************************************************************)
GridAtMount ==
  /\ settings = defaultSettings
  /\ isDirty = FALSE
  /\ autosaveTimer = NoTimer
  /\ gridLines = <<>>
  /\ initialSettings = <<>>
  /\ optimisationTimer = NoTimer
  /\ gridBotSettings = NoItem
  /\ localSettings = defaultSettings
  /\ calculatedGridLines = calculateGridLines(defaultSettings)

InitApi ==
  GridAtMount /\ ApiAtMount /\ EngineAtMount

NextApi ==
  \/ \E k \in ApiKeys : SetApiSettings("apiKey", k)
  \/ \E x \in ApiSecrets : SetApiSettings("apiSecret", x)
  \/ \E b \in BOOLEAN : SetApiSettings("testMode", b)
  \/ \E ok \in BOOLEAN : ClientInitEffect(ok)
  \/ \E ok \in BOOLEAN : ConnectionTest(ok)
  \/ \E ok \in BOOLEAN : PermanentSave(ok)
  \/ \E ok \in BOOLEAN : handleApiSettingsSave(ok)
  \/ \E k \in ApiKeys, x \in ApiSecrets, ok \in BOOLEAN : ProxyBalance(k, x, ok)
  \/ \E ok \in BOOLEAN : ProxyPrice(ok)

SpecApi ==
  InitApi /\ [][NextApi]_vars

\* React runs an effect that is due: the client initialisation effect is
\* not postponed for ever
SpecApiFair ==
  SpecApi /\ WF_vars(\E ok \in BOOLEAN : ClientInitEffect(ok))


(***************************************************************************)
(* SpecEngine: the bot's start/stop controls, the price polling and the    *)
(* bracket fields of the settings form.                                    *)
(***************************************************************************)
\* number of points of the price history (the code generates 100)
HistoryLen ==
  3

\* (Math.random() - 0.5) * 200 lies in [-100, 100); these two steps are the
\* exact results for Math.random() = 0.125 and 0.75
PriceSteps ==
  {-75, 50}

\* let price = 27500
StartPrice ==
  27500

\* values the operator types into the stopLoss and takeProfitLevel fields
StopLossInputs ==
  {24000, 27450}

TakeProfitInputs ==
  {31000, 27550}

\* order ids of the exchange account
OrderIds ==
  {1, 2}

\* price = price + step for each point, starting from StartPrice
RECURSIVE Walk(_, _)
Walk(price, steps) ==
  IF steps = <<>> THEN <<>>
  ELSE <<price + Head(steps)>> \o Walk(price + Head(steps), Tail(steps))

\* the latest price of a history
CurrentPrice(history) ==
  history[Len(history)]

\* the price is at or beyond the bracket of the settings s
Breach(price, s) ==
  price <= s.stopLoss \/ price >= s.takeProfitLevel

InitEngine ==
  /\ GridAtMount
  /\ ApiAtMount
  /\ CallsAtMount
  /\ isRunning = FALSE
  /\ priceHistory = <<>>
  /\ activeOrders = <<>>
  /\ orderRequests = <<>>
  /\ alertMessage = NoAlert
  /\ exchangeOpenOrders \in SUBSET OrderIds
  /\ breachedThisRun = FALSE

\* toggleBotStatus: setIsRunning(!isRunning)
toggleBotStatus ==
  /\ isRunning' = ~isRunning
  /\ breachedThisRun' = FALSE
  /\ orderRequests' = <<>>
  /\ alertMessage' = NoAlert
  /\ UNCHANGED <<priceHistory, activeOrders, exchangeOpenOrders>>
  /\ UNCHANGED <<gridVars, apiVars, callVars, facadeVars, fieldVars>>

\* the emergency stop button, rendered while isRunning:
\* setIsRunning(false) and the alert that all orders were cancelled
EmergencyStop ==
  /\ isRunning
  /\ isRunning' = FALSE
  /\ alertMessage' = "emergency stop: all orders were cancelled"
  /\ orderRequests' = <<>>
  /\ UNCHANGED <<priceHistory, activeOrders, exchangeOpenOrders, breachedThisRun>>
  /\ UNCHANGED <<gridVars, apiVars, callVars, facadeVars, fieldVars>>

\* fetchPriceData (first render, every 10 s, timeframe change): a random
\* walk from StartPrice replaces priceHistory; nothing else is touched
fetchPriceData ==
  /\ \E steps \in [1..HistoryLen -> PriceSteps] :
       priceHistory' = Walk(StartPrice, steps)
  /\ breachedThisRun' =
       (breachedThisRun \/
         (isRunning /\ Breach(CurrentPrice(priceHistory'), settings)))
  /\ orderRequests' = <<>>
  /\ alertMessage' = NoAlert
  /\ UNCHANGED <<isRunning, activeOrders, exchangeOpenOrders>>
  /\ UNCHANGED <<gridVars, apiVars, callVars, facadeVars, fieldVars>>

\* handleSettingsUpdate({...localSettings, [field]: value}), called by a
\* field of SettingsForm: setLocalSettings, the hook's updateSettings and
\* localStorage.setItem('gridBotSettings'), whose failure is alerted
\* (no handler runs when the first render threw)
handleSettingsUpdate(field, value, stored) ==
  LET newSettings == [localSettings EXCEPT ![field] = value]
  IN  /\ ~mountError
      /\ localSettings' = newSettings
      /\ settings' = newSettings
      /\ isDirty' = TRUE
      /\ autosaveTimer' = <<newSettings>>
      /\ calculatedGridLines' = calculateGridLines(newSettings)
      /\ UNCHANGED <<gridLines, initialSettings, optimisationTimer>>
      /\ IF stored
         THEN gridBotSettings' = <<newSettings>> /\ alertMessage' = NoAlert
         ELSE /\ alertMessage' = "error while updating the grid settings"
              /\ UNCHANGED gridBotSettings
      /\ orderRequests' = <<>>
      /\ UNCHANGED <<isRunning, priceHistory, activeOrders, exchangeOpenOrders,
                     breachedThisRun>>
      /\ UNCHANGED <<apiVars, callVars, facadeVars, fieldVars>>

NextEngine ==
  \/ toggleBotStatus
  \/ EmergencyStop
  \/ fetchPriceData
  \/ \E v \in StopLossInputs, ok \in BOOLEAN : handleSettingsUpdate("stopLoss", v, ok)
  \/ \E v \in TakeProfitInputs, ok \in BOOLEAN :
       handleSettingsUpdate("takeProfitLevel", v, ok)
  \/ AutosaveFires

SpecEngine ==
  InitEngine /\ [][NextEngine]_vars


(***************************************************************************)
(* SpecOrders: createOrder and cancelOrder of the BinanceApiClient that    *)
(* App imports, called by any caller in any interleaving with the          *)
(* exchange's answers.                                                     *)
(***************************************************************************)
\* number of calls made on the client
MaxCalls ==
  3

\* Order.status is a string taken from the exchange's answer
OrderStatuses ==
  {"PENDING", "OPEN", "FILLED", "CANCELLED", "REJECTED"}

\* the order ids a caller passes to cancelOrder
CancelIds ==
  {1, 2}

\* orderId of a call that names no order
NoOrder ==
  0

\* a call on a client.  heldStatus is the status of the Order object the
\* caller holds for orderId when the call is made; timeoutArmed tells
\* whether a timer will abort the request; attempts counts the requests
\* the call has sent
Call(method, orderId, heldStatus, timeoutArmed) ==
  [method |-> method, orderId |-> orderId, heldStatus |-> heldStatus,
   state |-> "outstanding", error |-> "none", timeoutArmed |-> timeoutArmed,
   attempts |-> 1]

\* fetch(`${this.baseUrl}${endpoint}`, options) of call number call
OrderRequest(call, verb, path, orderId) ==
  [call |-> call, verb |-> verb, path |-> path, orderId |-> orderId]

\* the status of the Order the caller holds for an id
HeldStatus(id) ==
  IF id \in 1..Len(orders) THEN orders[id] ELSE "unknown"

InitOrders ==
  GridAtMount /\ ApiAtMount /\ EngineAtMount

\* createOrder(orderParams): POST /orders is sent at once (makeRequest
\* runs up to its first await); the call then waits for the answer
createOrder ==
  /\ Len(calls) < MaxCalls
  /\ calls' = Append(calls, Call("createOrder", NoOrder, "none", FALSE))
  /\ wire' = Append(wire, OrderRequest(Len(calls) + 1, "POST", "/orders", NoOrder))
  /\ UNCHANGED <<orders, clock>>
  /\ UNCHANGED <<gridVars, apiVars, engineVars, facadeVars, fieldVars>>

\* cancelOrder(symbol, orderId): DELETE /orders/{orderId} is sent at once,
\* whatever the order's status and whatever calls are outstanding
cancelOrder(orderId) ==
  /\ Len(calls) < MaxCalls
  /\ calls' = Append(calls, Call("cancelOrder", orderId, HeldStatus(orderId), FALSE))
  /\ wire' = Append(wire, OrderRequest(Len(calls) + 1, "DELETE", "/orders/id", orderId))
  /\ UNCHANGED <<orders, clock>>
  /\ UNCHANGED <<gridVars, apiVars, engineVars, facadeVars, fieldVars>>

\* the exchange answers call i with response.ok: makeRequest returns the
\* JSON; createOrder returns it as the Order (the exchange numbers orders
\* 1, 2, ..), cancelOrder returns it and no Order object is touched
OrderCallResolves(i, status) ==
  /\ calls[i].state = "outstanding"
  /\ calls' = [calls EXCEPT ![i].state = "resolved"]
  /\ orders' = IF calls[i].method = "createOrder"
               THEN Append(orders, status) ELSE orders
  /\ UNCHANGED <<wire, clock>>
  /\ UNCHANGED <<gridVars, apiVars, engineVars, facadeVars, fieldVars>>

\* the exchange answers call i with an HTTP error status, or fetch fails:
\* the Error is logged and rethrown as it is
OrderCallRejects(i, error) ==
  /\ calls[i].state = "outstanding"
  /\ calls' = [calls EXCEPT ![i].state = "rejected", ![i].error = error]
  /\ UNCHANGED <<wire, orders, clock>>
  /\ UNCHANGED <<gridVars, apiVars, engineVars, facadeVars, fieldVars>>

NextOrders ==
  \/ createOrder
  \/ \E id \in CancelIds : cancelOrder(id)
  \/ \E i \in 1..Len(calls), status \in OrderStatuses : OrderCallResolves(i, status)
  \/ \E i \in 1..Len(calls) :
       \E error \in {"Error: HTTP error! status", "TypeError: Failed to fetch"} :
         OrderCallRejects(i, error)

SpecOrders ==
  InitOrders /\ [][NextOrders]_vars


(***************************************************************************)
(* SpecRequests: the calls of both BinanceApiClient variants and the       *)
(* routes of the proxy, from the reading of the clock to the answer, the   *)
(* failure or the timeout of the request.                                  *)
(***************************************************************************)
\* the last value of Date.now() the model reaches
MaxClock ==
  1

\* number of calls made on the clients and the proxy
MaxRequests ==
  2

\* the client under test: new BinanceApiClient({apiKey, apiSecret, testMode})
TestClient ==
  NewClient([apiKey |-> "K1", apiSecret |-> "S1", testMode |-> TRUE])

\* symbols passed to getCurrentPrice
Symbols ==
  {"BTCUSDT", "BTC/USDT"}

\* URLSearchParams percent-encodes a value ('/' becomes %2F)
EncodeValue(value) ==
  IF value = "BTC/USDT" THEN "BTC%2FUSDT" ELSE value

\* new URLSearchParams(pairs).toString(): name=value joined by '&', in
\* insertion order
RECURSIVE QueryString(_)
QueryString(pairs) ==
  IF pairs = <<>> THEN ""
  ELSE pairs[1][1] \o "=" \o EncodeValue(pairs[1][2])
         \o (IF Len(pairs) > 1 THEN "&" ELSE "") \o QueryString(Tail(pairs))

\* HMAC-SHA256 in hex, kept symbolic: a term of the secret and the message
HmacSha256Hex(secret, message) ==
  "hmac(" \o secret \o "," \o message \o ")"

\* a timestamp taken once and kept for later calls
RequestTimestampReused ==
  IF calls = <<>> THEN clock ELSE calls[1].startedAt

\* Date.now() read by the call itself
RequestTimestamp ==
  clock

NoError ==
  [name |-> "none", message |-> "none", status |-> 0]

\* a thrown Error (or, for the proxy, the error response it sends)
Failure(name, message, status) ==
  [name |-> name, message |-> message, status |-> status]

\* a call in flight.  signed is the string handed to generateSignature
\* ("" for an unsigned call); timestamp is the value put into it and
\* startedAt the clock when the call was made
ExchangeCall(variant, method, signed, timestamp, state) ==
  [variant |-> variant, method |-> method, signed |-> signed,
   timestamp |-> timestamp, startedAt |-> clock, state |-> state,
   result |-> "none", error |-> NoError, answer |-> 0,
   timeoutArmed |-> FALSE, attempts |-> 0]

\* the request fetch or axios puts on the wire for call i
WireRequest(i, base, path, query, signature, apiKeyHeader) ==
  [call |-> i, base |-> base, path |-> path, query |-> query,
   signature |-> signature, apiKeyHeader |-> apiKeyHeader]

InitRequests ==
  GridAtMount /\ ApiAtMount /\ EngineAtMount

\* time passes
Tick ==
  /\ clock < MaxClock
  /\ clock' = clock + 1
  /\ UNCHANGED <<calls, wire, orders>>
  /\ UNCHANGED <<gridVars, apiVars, engineVars, facadeVars, fieldVars>>

CallFrame ==
  /\ UNCHANGED <<orders, clock>>
  /\ UNCHANGED <<gridVars, apiVars, engineVars, facadeVars, fieldVars>>

\* the signing client's makeRequest(endpoint, params) up to
\* `await this.generateSignature(queryString)`: the timestamp is read and
\* the query string is built from {...params, timestamp}
SigningMakeRequestBegins(method, params) ==
  LET timestamp == RequestTimestamp
      queryString == QueryString(params \o <<<<"timestamp", ToString(timestamp)>>>>)
  IN  /\ Len(calls) < MaxRequests
      /\ calls' = Append(calls,
                    ExchangeCall("signing", method, queryString, timestamp, "signing"))
      /\ UNCHANGED wire
      /\ CallFrame

\* validateCredentials of either variant up to the await of the signature:
\* queryString = `timestamp=${timestamp}`
ValidateCredentialsBegins(variant) ==
  LET timestamp == RequestTimestamp
      queryString == "timestamp=" \o ToString(timestamp)
  IN  /\ Len(calls) < MaxRequests
      /\ calls' = Append(calls,
                    ExchangeCall(variant, "validateCredentials", queryString,
                                 timestamp, "signing"))
      /\ UNCHANGED wire
      /\ CallFrame

\* the path a method of the clients asks for
EndpointOf(method) ==
  CASE method = "getAccountBalance"   -> "/account"
    [] method = "getCurrentPrice"     -> "/ticker/price"
    [] method = "validateCredentials" -> "/account"
    [] method = "createOrder"         -> "/orders"
    [] method = "cancelOrder"         -> "/orders/id"

\* the request is sent with a parameter added after signing
SignedRequestIsSentWithExtraParameter(i) ==
  LET signature == HmacSha256Hex(TestClient.apiSecret, calls[i].signed)
  IN  /\ calls[i].state = "signing"
      /\ calls' = [calls EXCEPT ![i].state = "outstanding",
                                ![i].attempts = 1,
                                ![i].timeoutArmed =
                                   (calls[i].method # "validateCredentials")]
      /\ wire' = Append(wire,
                   WireRequest(i, TestClient.baseUrl, EndpointOf(calls[i].method),
                               calls[i].signed \o "&recvWindow=5000"
                                 \o "&signature=" \o signature,
                               signature, TestClient.apiKey))
      /\ CallFrame

\* the signature is ready: the URL is `${baseUrl}${endpoint}?${queryString}
\* &signature=${signature}` and fetch sends it with the key in the
\* X-MBX-APIKEY header.  makeRequest arms a 10 s abort timer,
\* validateCredentials passes no signal
SignedRequestIsSent(i) ==
  LET signature == HmacSha256Hex(TestClient.apiSecret, calls[i].signed)
  IN  /\ calls[i].state = "signing"
      /\ calls' = [calls EXCEPT ![i].state = "outstanding",
                                ![i].attempts = 1,
                                ![i].timeoutArmed =
                                   (calls[i].method # "validateCredentials")]
      /\ wire' = Append(wire,
                   WireRequest(i, TestClient.baseUrl, EndpointOf(calls[i].method),
                               calls[i].signed \o "&signature=" \o signature,
                               signature, TestClient.apiKey))
      /\ CallFrame

\* makeRequest(endpoint, method, body) of the variant App imports: one
\* fetch without signature, key header or abort signal
PlainMakeRequest(method) ==
  /\ Len(calls) < MaxRequests
  /\ calls' = Append(calls,
                [ExchangeCall("plain", method, "", 0, "outstanding")
                   EXCEPT !.attempts = 1])
  /\ wire' = Append(wire,
               WireRequest(Len(calls) + 1, TestClient.baseUrl,
                           IF method = "getAccountBalance" THEN "/balance"
                           ELSE IF method = "getCurrentPrice" THEN "/ticker"
                           ELSE EndpointOf(method),
                           "", "", ""))
  /\ CallFrame

\* server.js /api/balance with key and secret in the query: timestamp,
\* signature and the axios request (timeout 10000) in one go
ProxyBalanceRoute ==
  LET timestamp == RequestTimestamp
      queryString == "timestamp=" \o ToString(timestamp)
      signature == HmacSha256Hex("S1", queryString)
  IN  /\ Len(calls) < MaxRequests
      /\ calls' = Append(calls,
                    [ExchangeCall("proxy", "balanceRoute", queryString, timestamp,
                                  "outstanding")
                       EXCEPT !.attempts = 1, !.timeoutArmed = TRUE])
      /\ wire' = Append(wire,
                   WireRequest(Len(calls) + 1, BINANCE_API_URL, "/api/v3/account",
                               queryString \o "&signature=" \o signature,
                               signature, "K1"))
      /\ CallFrame

\* server.js /api/price/:symbol: an unsigned axios request (timeout 5000)
ProxyPriceRoute(symbol) ==
  /\ Len(calls) < MaxRequests
  /\ calls' = Append(calls,
                [ExchangeCall("proxy", "priceRoute", "", 0, "outstanding")
                   EXCEPT !.attempts = 1, !.timeoutArmed = TRUE])
  /\ wire' = Append(wire,
               WireRequest(Len(calls) + 1, BINANCE_API_URL, "/api/v3/ticker/price",
                           "symbol=" \o symbol, "", ""))
  /\ CallFrame


\* HTTP error statuses the exchange answers with
ErrorStatuses ==
  {401, 500}

\* what the proxy answers its caller when the exchange call failed:
\* res.status(error.response?.status || 500).json({error, details})
ProxyErrorResponse(method, details, status) ==
  Failure(IF method = "balanceRoute" THEN "Binance API error"
          ELSE "price fetch failed", details, status)

\* call i ends: rejected with a failure, or resolved with a result
Rejected(i, failure, status) ==
  calls' = [calls EXCEPT ![i].state = "rejected", ![i].error = failure,
                         ![i].answer = status, ![i].timeoutArmed = FALSE]

Resolved(i, result, status) ==
  calls' = [calls EXCEPT ![i].state = "resolved", ![i].result = result,
                         ![i].answer = status, ![i].timeoutArmed = FALSE]

\* the exchange answers call i with a success status
ExchangeAnswersOk(i) ==
  /\ calls[i].state = "outstanding"
  /\ Resolved(i, IF calls[i].method = "validateCredentials" THEN "true" ELSE "data",
              200)
  /\ UNCHANGED wire
  /\ CallFrame

\* the exchange answers call i with an error status.  The signing
\* makeRequest throws Error(`API request failed (${status}): ${text}`),
\* which handleError returns as it is; the plain makeRequest throws
\* Error(`HTTP error! status: ${status}`); validateCredentials returns
\* false; the proxy forwards the status
ExchangeAnswersStatus(i, status) ==
  /\ calls[i].state = "outstanding"
  /\ CASE calls[i].method = "validateCredentials" -> Resolved(i, "false", status)
       [] calls[i].variant = "proxy" ->
            Rejected(i, ProxyErrorResponse(calls[i].method, "response body", status),
                     status)
       [] calls[i].variant = "signing" /\ calls[i].method # "validateCredentials" ->
            Rejected(i, Failure("Error", "API request failed (status)", status), status)
       [] calls[i].variant = "plain" /\ calls[i].method # "validateCredentials" ->
            Rejected(i, Failure("Error", "HTTP error! status", status), status)
  /\ UNCHANGED wire
  /\ CallFrame

\* no connection: fetch rejects with TypeError('Failed to fetch'), axios
\* with an error without response
FetchFails(i) ==
  /\ calls[i].state = "outstanding"
  /\ CASE calls[i].method = "validateCredentials" -> Resolved(i, "false", 0)
       [] calls[i].variant = "proxy" ->
            Rejected(i, ProxyErrorResponse(calls[i].method, "connect failure", 500), 0)
       [] calls[i].variant = "signing" /\ calls[i].method # "validateCredentials" ->
            Rejected(i, Failure("Error", "network connection error", 0), 0)
       [] calls[i].variant = "plain" /\ calls[i].method # "validateCredentials" ->
            Rejected(i, Failure("TypeError", "Failed to fetch", 0), 0)
  /\ UNCHANGED wire
  /\ CallFrame

\* the exchange has not answered and the timer of call i fires:
\* controller.abort() makes fetch reject with AbortError, rethrown as
\* Error('request timed out'); axios rejects with 'timeout of .. exceeded',
\* which the proxy answers with 500
TimeoutFires(i) ==
  /\ calls[i].state = "outstanding"
  /\ calls[i].timeoutArmed
  /\ IF calls[i].variant = "proxy"
     THEN Rejected(i, ProxyErrorResponse(calls[i].method, "timeout exceeded", 500), 0)
     ELSE Rejected(i, Failure("Error", "request timed out", 0), 0)
  /\ UNCHANGED wire
  /\ CallFrame

NextRequests ==
  \/ Tick
  \/ SigningMakeRequestBegins("getAccountBalance", <<>>)
  \/ \E symbol \in Symbols :
       SigningMakeRequestBegins("getCurrentPrice", <<<<"symbol", symbol>>>>)
  \/ \E variant \in {"signing", "plain"} : ValidateCredentialsBegins(variant)
  \/ \E i \in 1..Len(calls) : SignedRequestIsSent(i)
  \/ \E method \in {"getAccountBalance", "createOrder"} : PlainMakeRequest(method)
  \/ ProxyBalanceRoute
  \/ ProxyPriceRoute("BTCUSDT")
  \/ \E i \in 1..Len(calls) : ExchangeAnswersOk(i)
  \/ \E i \in 1..Len(calls), status \in ErrorStatuses : ExchangeAnswersStatus(i, status)
  \/ \E i \in 1..Len(calls) : FetchFails(i)
  \/ \E i \in 1..Len(calls) : TimeoutFires(i)

SpecRequests ==
  InitRequests /\ [][NextRequests]_vars

(***************************************************************************)
(* SpecValidate: validateCredentials of both client variants, with every   *)
(* way its signing, its request and the reading of the answer can end.     *)
(***************************************************************************)
\* generateSignature throws and the caller lets the Error through
SigningFailsUncaught(i) ==
  /\ calls[i].state = "signing"
  /\ Rejected(i, Failure("Error", "signature generation failed", 0), 0)
  /\ UNCHANGED wire
  /\ CallFrame

\* generateSignature throws (crypto.subtle is missing outside a secure
\* context, or importKey / sign rejects): Error('signature generation
\* failed').  validateCredentials catches it and returns false; the
\* signing makeRequest logs it and rethrows it through handleError
SigningFails(i) ==
  /\ calls[i].state = "signing"
  /\ IF calls[i].method = "validateCredentials"
     THEN Resolved(i, "false", 0)
     ELSE Rejected(i, Failure("Error", "signature generation failed", 0), 0)
  /\ UNCHANGED wire
  /\ CallFrame

\* the exchange answers call i with a success status and a body that is
\* not JSON: response.json() rejects with a SyntaxError, which
\* validateCredentials catches (false) and makeRequest rethrows
ExchangeAnswersUnparseable(i) ==
  /\ calls[i].state = "outstanding"
  /\ IF calls[i].method = "validateCredentials"
     THEN Resolved(i, "false", 200)
     ELSE Rejected(i, Failure("SyntaxError", "Unexpected token", 200), 200)
  /\ calls[i].variant # "proxy"
  /\ UNCHANGED wire
  /\ CallFrame

NextValidate ==
  \/ Tick
  \/ \E variant \in {"signing", "plain"} : ValidateCredentialsBegins(variant)
  \/ \E i \in 1..Len(calls) : SigningFails(i)
  \/ \E i \in 1..Len(calls) : SignedRequestIsSent(i)
  \/ \E i \in 1..Len(calls) : ExchangeAnswersOk(i)
  \/ \E i \in 1..Len(calls) : ExchangeAnswersUnparseable(i)
  \/ \E i \in 1..Len(calls), status \in ErrorStatuses : ExchangeAnswersStatus(i, status)
  \/ \E i \in 1..Len(calls) : FetchFails(i)

SpecValidate ==
  InitRequests /\ [][NextValidate]_vars


(***************************************************************************)
(* SpecProxy: the two routes of server.js taken by themselves, with the    *)
(* query of /api/balance drawn from present and missing credentials.       *)
(***************************************************************************)
\* apiKey and apiSecret of req.query ("" for a missing or empty parameter)
QueryKeys ==
  {"", "K1"}

QuerySecrets ==
  {"", "S1"}

\* /api/balance forwarding whatever the query holds
ProxyBalanceRequestUnchecked(apiKey, apiSecret) ==
  ProxyBalanceRoute

\* app.get('/api/balance'): `if (!apiKey || !apiSecret)` answers 400 at
\* once and returns; otherwise the signed request goes to the exchange
ProxyBalanceRequest(apiKey, apiSecret) ==
  IF apiKey = "" \/ apiSecret = ""
  THEN /\ Len(calls) < MaxRequests
       /\ calls' = Append(calls,
                     [ExchangeCall("proxy", "balanceRoute", "", 0, "rejected")
                        EXCEPT !.error = Failure("API key and secret required",
                                                 "none", 400)])
       /\ UNCHANGED wire
       /\ CallFrame
  ELSE ProxyBalanceRoute

NextProxy ==
  \/ Tick
  \/ \E apiKey \in QueryKeys, apiSecret \in QuerySecrets :
       ProxyBalanceRequest(apiKey, apiSecret)
  \/ ProxyPriceRoute("BTCUSDT")
  \/ \E i \in 1..Len(calls) : ExchangeAnswersOk(i)
  \/ \E i \in 1..Len(calls), status \in ErrorStatuses : ExchangeAnswersStatus(i, status)
  \/ \E i \in 1..Len(calls) : FetchFails(i)
  \/ \E i \in 1..Len(calls) : TimeoutFires(i)

SpecProxy ==
  InitRequests /\ [][NextProxy]_vars

\* the axios timeout (10000 ms, 5000 ms) ends every request the exchange
\* leaves unanswered
SpecProxyFair ==
  SpecProxy /\ WF_vars(\E i \in 1..Len(calls) : TimeoutFires(i))


(***************************************************************************)
(* SpecConfig: the grid configuration of App from its first render: the    *)
(* settings loaded from localStorage, the fields of SettingsForm, the      *)
(* optimisation and the autosave.                                          *)
(***************************************************************************)
\* a localStorage item on which JSON.parse throws
Corrupt ==
  [unparseable |-> TRUE]

\* { ...a, ...b }
Spread(a, b) ==
  [f \in (DOMAIN a) \cup (DOMAIN b) |-> IF f \in DOMAIN b THEN b[f] ELSE a[f]]

\* loadSettings of the hook: the saved item parsed over the defaults; the
\* defaults with initialSettings over them when nothing is saved or
\* JSON.parse throws
loadSettings(savedSettings, initial) ==
  IF savedSettings = NoItem \/ savedSettings[1] = Corrupt
  THEN Spread(defaultSettings, initial)
  ELSE Spread(defaultSettings, savedSettings[1])

\* the initial apiSettings state: JSON.parse of the saved item, outside
\* any try block, or the empty form
loadApiSettings(savedApiSettings) ==
  IF savedApiSettings = NoItem THEN [threw |-> FALSE, value |-> defaultApiSettings]
  ELSE IF savedApiSettings[1] = Corrupt
       THEN [threw |-> TRUE, value |-> defaultApiSettings]
       ELSE [threw |-> FALSE, value |-> savedApiSettings[1]]

\* what localStorage holds under 'gridBotSettings' when the page is opened
StoredGridSettings ==
  {NoItem,
   <<[defaultSettings EXCEPT !.upperLimit = 29000, !.gridNumber = 5]>>,
   <<[gridNumber |-> 8]>>,
   <<Corrupt>>}

\* what localStorage holds under 'gridBotApiSettings'
StoredApiSettings ==
  {NoItem,
   <<[exchange |-> "binance", apiKey |-> "K1", apiSecret |-> "S1",
      testMode |-> FALSE]>>,
   <<Corrupt>>}

\* arguments of useGridSettings (App passes none)
InitialSettingsArguments ==
  {<<>>, [gridNumber |-> 20, stopLoss |-> 23000]}

InitConfig ==
  /\ gridBotSettings \in StoredGridSettings
  /\ initialSettings \in InitialSettingsArguments
  /\ settings = loadSettings(gridBotSettings, initialSettings)
  /\ isDirty = FALSE
  /\ autosaveTimer = NoTimer
  /\ localSettings = defaultSettings
  /\ calculatedGridLines = calculateGridLines(settings)
  /\ gridLines = <<>>
  /\ optimisationTimer = NoTimer
  /\ gridBotApiSettings \in StoredApiSettings
  /\ mountError = loadApiSettings(gridBotApiSettings).threw
  /\ apiSettings = loadApiSettings(gridBotApiSettings).value
  /\ binanceApiStore = NoItem
  /\ binanceClient = <<>>
  /\ clientEffectPending = TRUE
  /\ sentRequests = <<>>
  /\ consoleLog = {}
  /\ proxyRequest = <<>>
  /\ proxyLog = {}
  /\ balance = [base |-> 0, quote |-> 0]
  /\ EngineAtMount

\* the optimisation button with optimisation enabled: a 2000 ms timer is
\* set whose callback closes over the gridSettings of this render (the
\* button is disabled while an optimisation is in progress)
OptimisationStarts ==
  /\ ~mountError
  /\ optimisationTimer = NoTimer
  /\ optimisationTimer' = <<settings>>
  /\ UNCHANGED <<settings, isDirty, autosaveTimer, gridBotSettings, localSettings,
                 calculatedGridLines, gridLines, initialSettings>>
  /\ UNCHANGED <<apiVars, engineVars, callVars, facadeVars, fieldVars>>

\* the optimisation with the levels of the previous render kept
OptimisationCompletesLevelsKept ==
  LET optimizedSettings ==
        [optimisationTimer[1] EXCEPT !.upperLimit = 31500, !.lowerLimit = 24500,
                                     !.gridNumber = 14]
  IN  /\ optimisationTimer # NoTimer
      /\ optimisationTimer' = NoTimer
      /\ settings' = Spread(settings, optimizedSettings)
      /\ isDirty' = TRUE
      /\ autosaveTimer' = <<settings'>>
      /\ alertMessage' = "optimisation completed"
      /\ orderRequests' = <<>>
      /\ UNCHANGED <<gridBotSettings, localSettings, gridLines, initialSettings,
                     calculatedGridLines>>
      /\ UNCHANGED <<isRunning, priceHistory, activeOrders, exchangeOpenOrders,
                     breachedThisRun>>
      /\ UNCHANGED <<apiVars, callVars, facadeVars, fieldVars>>

\* the timer of the optimisation fires: updateGridSettings({...gridSettings,
\* upperLimit: 31500, lowerLimit: 24500, gridNumber: 14}) and the alert;
\* the form's localSettings and localStorage are not written
OptimisationCompletes ==
  LET optimizedSettings ==
        [optimisationTimer[1] EXCEPT !.upperLimit = 31500, !.lowerLimit = 24500,
                                     !.gridNumber = 14]
  IN  /\ optimisationTimer # NoTimer
      /\ optimisationTimer' = NoTimer
      /\ settings' = Spread(settings, optimizedSettings)
      /\ isDirty' = TRUE
      /\ autosaveTimer' = <<settings'>>
      /\ calculatedGridLines' = calculateGridLines(settings')
      /\ alertMessage' = "optimisation completed"
      /\ orderRequests' = <<>>
      /\ UNCHANGED <<gridBotSettings, localSettings, gridLines, initialSettings>>
      /\ UNCHANGED <<isRunning, priceHistory, activeOrders, exchangeOpenOrders,
                     breachedThisRun>>
      /\ UNCHANGED <<apiVars, callVars, facadeVars, fieldVars>>

\* values typed into the fields of SettingsForm
ConfigInputs ==
  {<<"upperLimit", 28000>>, <<"gridNumber", 4>>}

NextConfig ==
  \/ \E input \in ConfigInputs, stored \in BOOLEAN :
       handleSettingsUpdate(input[1], input[2], stored)
  \/ OptimisationStarts
  \/ OptimisationCompletes
  \/ AutosaveFires

SpecConfig ==
  InitConfig /\ [][NextConfig]_vars


(***************************************************************************)
(* SpecBalance: the balance state of App under the operations of the       *)
(* operator: credentials, the client initialisation with its balance       *)
(* fetch, the connection test, start/stop, the price poll and the          *)
(* settings form.                                                          *)
(***************************************************************************)
NextBalance ==
  \/ \E k \in ApiKeys : SetApiSettings("apiKey", k)
  \/ \E x \in ApiSecrets : SetApiSettings("apiSecret", x)
  \/ \E ok \in BOOLEAN : ClientInitEffect(ok)
  \/ \E ok \in BOOLEAN : ConnectionTest(ok)
  \/ toggleBotStatus
  \/ fetchPriceData
  \/ \E ok \in BOOLEAN : handleSettingsUpdate("stopLoss", 27450, ok)

SpecBalance ==
  InitApi /\ [][NextBalance]_vars


(***************************************************************************)
(* SpecFacade: the api facade (getBalance, getPrice, getAccountInfo over   *)
(* axios) in its two variants, services/api and the older one, called by   *)
(* any caller.                                                             *)
(***************************************************************************)
\* number of calls made on the facade
MaxFacadeCalls ==
  2

FacadeVariants ==
  {"services", "older"}

FacadeOperations ==
  {"getBalance", "getPrice", "getAccountInfo"}

\* what axios rejects with (or what else the try block throws).  response
\* is <<>> when the error has none, data is <<>> for a null body
Thrown(isError, isAxiosError, hasResponseField, response, message) ==
  [isError |-> isError, isAxiosError |-> isAxiosError,
   hasResponseField |-> hasResponseField, response |-> response,
   message |-> message]

HttpResponse(status, data) ==
  [status |-> status, data |-> data]

ThrownValues ==
  {Thrown(TRUE, TRUE, TRUE,
          <<HttpResponse(401, <<[message |-> "invalid key", error |-> "denied"]>>)>>,
          "Request failed with status code 401"),
   Thrown(TRUE, TRUE, TRUE, <<HttpResponse(500, <<[details |-> "html"]>>)>>,
          "Request failed with status code 500"),
   Thrown(TRUE, TRUE, TRUE, <<HttpResponse(502, <<>>)>>,
          "Request failed with status code 502"),
   Thrown(TRUE, TRUE, FALSE, <<>>, "Network Error"),
   Thrown(TRUE, TRUE, TRUE, <<>>, "Network Error"),
   Thrown(FALSE, FALSE, FALSE, <<>>, "")}

\* nothing was returned
NoReturn ==
  [none |-> TRUE]

\* a || b for strings that may be missing: data is <<>> (null) or <<object>>
FieldOr(data, field, default) ==
  IF data # <<>> /\ field \in DOMAIN data[1] THEN data[1][field] ELSE default

\* handleApiError of the facade.  services: an object with a response
\* property gives response?.data?.message or the request-failed default,
\* another Error its message, anything else the unexpected-error default.
\* older: an axios error with a response gives response.data.error (a
\* TypeError when data is null) or the communication default, and the
\* status; anything else the unexpected-error default with status 500
handleApiError(variant, error) ==
  IF variant = "services"
  THEN [threw |-> FALSE,
        returned |->
          IF error.hasResponseField
          THEN [error |-> TRUE,
                message |-> IF error.response = <<>> THEN "request failed"
                            ELSE FieldOr(error.response[1].data, "message",
                                         "request failed")]
          ELSE IF error.isError
               THEN [error |-> TRUE, message |-> error.message]
               ELSE [error |-> TRUE, message |-> "unexpected error"]]
  ELSE IF error.isAxiosError /\ error.response # <<>>
       THEN IF error.response[1].data = <<>>
            THEN [threw |-> TRUE, returned |-> NoReturn]
            ELSE [threw |-> FALSE,
                  returned |->
                    [error |-> TRUE,
                     message |-> FieldOr(error.response[1].data, "error",
                                         "communication error"),
                     status |-> error.response[1].status]]
       ELSE [threw |-> FALSE,
             returned |-> [error |-> TRUE, message |-> "unexpected error",
                           status |-> 500]]

\* the URL apiClient.get is called with
FacadeUrl(variant, operation) ==
  IF variant = "services"
  THEN "http://localhost:3001" \o
         (CASE operation = "getBalance"     -> "/api/balance/symbol"
            [] operation = "getPrice"       -> "/api/price/symbol"
            [] operation = "getAccountInfo" -> "/api/account")
  ELSE "http://localhost:3001/api" \o
         (CASE operation = "getBalance"     -> "/balance?asset"
            [] operation = "getPrice"       -> "/price/symbol"
            [] operation = "getAccountInfo" -> "/account")

InitFacade ==
  GridAtMount /\ ApiAtMount /\ EngineAtMount

FacadeFrame ==
  UNCHANGED <<gridVars, apiVars, engineVars, callVars, fieldVars>>

\* api.getBalance / getPrice / getAccountInfo up to `await apiClient.get`
FacadeCallBegins(variant, operation) ==
  /\ Len(facadeCalls) < MaxFacadeCalls
  /\ facadeCalls' =
       Append(facadeCalls,
              [variant |-> variant, operation |-> operation,
               url |-> FacadeUrl(variant, operation), state |-> "pending",
               outcome |-> "none", returned |-> NoReturn])
  /\ FacadeFrame

\* axios resolves: { error: false, data: response.data }
AxiosResolves(i) ==
  /\ facadeCalls[i].state = "pending"
  /\ facadeCalls' =
       [facadeCalls EXCEPT ![i].state = "returned", ![i].outcome = "success",
                           ![i].returned = [error |-> FALSE, data |-> "data"]]
  /\ FacadeFrame

\* axios rejects: the catch block returns handleApiError(error)
AxiosRejects(i, error) ==
  LET handled == handleApiError(facadeCalls[i].variant, error)
  IN  /\ facadeCalls[i].state = "pending"
      /\ facadeCalls' =
           [facadeCalls EXCEPT
              ![i].state = IF handled.threw THEN "threw" ELSE "returned",
              ![i].outcome = "failure",
              ![i].returned = handled.returned]
      /\ FacadeFrame

NextFacade ==
  \/ \E variant \in FacadeVariants, operation \in FacadeOperations :
       FacadeCallBegins(variant, operation)
  \/ \E i \in 1..Len(facadeCalls) : AxiosResolves(i)
  \/ \E i \in 1..Len(facadeCalls), error \in ThrownValues : AxiosRejects(i, error)

SpecFacade ==
  InitFacade /\ [][NextFacade]_vars


(***************************************************************************)
(* SpecField: one useGridField instance, from mount to unmount, with a     *)
(* parent that stores every value it is handed and passes it back as       *)
(* initialValue (as SettingsForm does through localSettings).              *)
(***************************************************************************)
\* number of handleChange events
MaxTyped ==
  2

\* number of onChange calls recorded
MaxDelivered ==
  3

\* texts of the input after a key stroke (e.target.value), without
\* fraction digits
FieldTexts ==
  {<<"5">>, <<"7", "x">>, <<"1", ",", "2", "0", "0">>, <<"5", ".", ".">>,
   <<".">>, <<>>}

\* value.replace(/[^\d.]/g, '')
KeepNumeric(t) ==
  SelectSeq(t, LAMBDA c : c \in Digits \cup {"."})

\* handleChange: the numeric characters up to the second decimal point
\* (parts[0] + '.' + parts[1])
Sanitize(t) ==
  LET kept == KeepNumeric(t)
      dots == {i \in 1..Len(kept) : kept[i] = "."}
      second == {i \in dots : Cardinality({j \in dots : j < i}) = 1}
  IN  IF second = {} THEN kept
      ELSE SubSeq(kept, 1, (CHOOSE i \in second : TRUE) - 1)

\* Number(t) for a text of digits and decimal points without fraction
\* digits: '' is 0, a text with two points or with a point and no digit is
\* NaN
NumberOf(t) ==
  LET dots   == Cardinality({i \in 1..Len(t) : t[i] = "."})
      digits == SelectSeq(t, LAMBDA c : c \in Digits)
  IN  IF dots >= 2 \/ (dots = 1 /\ digits = <<>>)
      THEN [isNaN |-> TRUE, value |-> 0]
      ELSE [isNaN |-> FALSE, value |-> DigitPrefix(digits, 1, 0)]

\* toLocaleString() of a non-negative integer in an en-US locale: groups
\* of three digits separated by commas
RECURSIVE GroupThousands(_)
GroupThousands(d) ==
  IF Len(d) <= 3 THEN d
  ELSE GroupThousands(SubSeq(d, 1, Len(d) - 3)) \o <<",">>
         \o SubSeq(d, Len(d) - 2, Len(d))

toLocaleString(n) ==
  GroupThousands(NumberToString(n))

InitField ==
  GridAtMount /\ ApiAtMount /\ EngineAtMount

FieldFrame ==
  UNCHANGED <<gridVars, apiVars, engineVars, callVars, facadeVars>>

\* the timer the ref points to, as a set
RefTimer ==
  IF updateTimeoutRef = NoTimer THEN {} ELSE {updateTimeoutRef[1]}

\* onChange(value): the call is recorded; the parent stores the value and
\* passes it back as initialValue
Deliver(value, by, typed) ==
  /\ delivered' = Append(delivered, [value |-> value, by |-> by, typed |-> typed,
                                     mounted |-> isMountedRef])
  /\ initialValue' = value

\* handleChange: the sanitized text is shown, the timer of the ref is
\* cleared and a new 300 ms timer is set
handleChange(text) ==
  LET sanitizedValue == Sanitize(text)
      timer == [typed |-> typedCount + 1, text |-> sanitizedValue]
  IN  /\ isMountedRef
      /\ typedCount < MaxTyped
      /\ localValue' = sanitizedValue
      /\ pendingTimers' = (pendingTimers \ RefTimer) \cup {timer}
      /\ updateTimeoutRef' = <<timer>>
      /\ typedCount' = typedCount + 1
      /\ shownTyped' = typedCount + 1
      /\ UNCHANGED <<initialValue, isMountedRef, delivered>>
      /\ FieldFrame

\* a debounce timer fires: a non-empty numeric text is handed to the
\* parent while the field is mounted, and the ref is set to null.  The
\* render that follows a changed initialValue runs the synchronising
\* effect, which finds no timer in the ref and shows the formatted value
DebounceFires(timer) ==
  LET number == NumberOf(timer.text)
  IN  /\ timer \in pendingTimers
      /\ pendingTimers' = pendingTimers \ {timer}
      /\ updateTimeoutRef' = NoTimer
      /\ IF isMountedRef /\ timer.text # <<>> /\ ~number.isNaN
         THEN /\ Len(delivered) < MaxDelivered
              /\ Deliver(number.value, "timer", timer.typed)
              /\ localValue' = IF number.value # initialValue
                               THEN toLocaleString(number.value)
                               ELSE localValue
         ELSE UNCHANGED <<delivered, initialValue, localValue>>
      /\ UNCHANGED <<isMountedRef, typedCount, shownTyped>>
      /\ FieldFrame

\* handleBlur: the timer of the ref is cleared; an empty or invalid text is
\* replaced by the formatted initialValue, which is handed to the parent;
\* a valid one is handed to the parent and shown formatted
handleBlur ==
  LET numericValue == KeepNumeric(localValue)
      number == NumberOf(numericValue)
  IN  /\ isMountedRef
      /\ Len(delivered) < MaxDelivered
      /\ pendingTimers' = pendingTimers \ RefTimer
      /\ updateTimeoutRef' = NoTimer
      /\ IF numericValue = <<>> \/ number.isNaN
         THEN /\ localValue' = toLocaleString(initialValue)
              /\ Deliver(initialValue, "blur", 0)
              /\ shownTyped' = 0
         ELSE /\ Deliver(number.value, "blur", shownTyped)
              /\ localValue' = toLocaleString(number.value)
              /\ UNCHANGED shownTyped
      /\ UNCHANGED <<isMountedRef, typedCount>>
      /\ FieldFrame

\* handleFocus: the text without its separators is shown
handleFocus ==
  LET numericValue == KeepNumeric(localValue)
  IN  /\ isMountedRef
      /\ localValue' = IF NumberOf(numericValue).isNaN THEN localValue
                       ELSE numericValue
      /\ UNCHANGED <<initialValue, updateTimeoutRef, pendingTimers, isMountedRef,
                     typedCount, shownTyped, delivered>>
      /\ FieldFrame

\* the cleanup of the mount effect: isMountedRef.current = false and
\* clearTimeout of the ref's timer
FieldUnmounts ==
  /\ isMountedRef
  /\ isMountedRef' = FALSE
  /\ pendingTimers' = pendingTimers \ RefTimer
  /\ UNCHANGED <<localValue, initialValue, updateTimeoutRef, typedCount,
                 shownTyped, delivered>>
  /\ FieldFrame

NextField ==
  \/ \E text \in FieldTexts : handleChange(text)
  \/ \E timer \in pendingTimers : DebounceFires(timer)
  \/ handleBlur
  \/ handleFocus
  \/ FieldUnmounts

SpecField ==
  InitField /\ [][NextField]_vars


\* the levels of a valid configuration have been computed
LevelsComputed ==
  ValidConfiguration(settings) /\ calculatedGridLines # <<>>

StrictlyIncreasing(levels) ==
  \A i \in 1..(Len(levels) - 1) : flt(levels[i], levels[i + 1])

\* C1 as stated: for every valid configuration the computation returns
\* exactly gridNumber + 1 strictly increasing values, the first equal to
\* lowerLimit and the last equal to upperLimit.
C1_LevelsEndExactlyAtUpperLimit ==
  LevelsComputed =>
    /\ Len(calculatedGridLines) = settings.gridNumber + 1
    /\ StrictlyIncreasing(calculatedGridLines)
    /\ feq(calculatedGridLines[1], FromInt(settings.lowerLimit))
    /\ feq(calculatedGridLines[Len(calculatedGridLines)], FromInt(settings.upperLimit))

\* C1 as amended: for every valid configuration with integer limits
\* 0 <= lowerLimit < upperLimit < 2^31 the computation returns exactly
\* gridNumber + 1 strictly increasing values, the first equal to lowerLimit
\* and the last equal to upperLimit up to rounding: within upperLimit * 2^-51.
C1_LevelsEndAtUpperLimitUpToRounding ==
  LevelsComputed =>
    /\ Len(calculatedGridLines) = settings.gridNumber + 1
    /\ StrictlyIncreasing(calculatedGridLines)
    /\ feq(calculatedGridLines[1], FromInt(settings.lowerLimit))
    /\ WithinRounding(calculatedGridLines[Len(calculatedGridLines)],
                      FromInt(settings.upperLimit), 51)

\* C1 witness: levels computed for lower 500, upper 30000, 7 grids, whose
\* last level is 30000.000000000004
C1_Witness ==
  /\ LevelsComputed
  /\ settings.lowerLimit = 500 /\ settings.upperLimit = 30000
  /\ settings.gridNumber = 7
  /\ ~feq(calculatedGridLines[8], FromInt(30000))
  /\ flt(FromInt(30000), calculatedGridLines[8])

\* C2 as stated: level i is lowerLimit + i * interval and every pair of
\* consecutive levels differs by the same interval.
C2_ConsecutiveLevelsDifferByInterval ==
  LevelsComputed =>
    \A i \in 1..(Len(calculatedGridLines) - 1) :
      feq(fsub(calculatedGridLines[i + 1], calculatedGridLines[i]),
          calculateGridInterval(settings))

\* the interval of the configuration is an integer
IntegerInterval(s) ==
  (s.upperLimit - s.lowerLimit) % s.gridNumber = 0

\* C2 as amended: level i is the double lowerLimit + i * interval with the
\* interval of calculateGridInterval, each product and sum rounded once;
\* consecutive levels differ by exactly the interval when the interval is
\* an integer, and otherwise only up to rounding; for upper 30000, lower
\* 25000, gridNumber 10 the levels are exactly 25000, 25500, ..., 30000.
C2_LevelsAreLowerPlusMultiplesOfInterval ==
  LevelsComputed =>
    /\ \A i \in 1..Len(calculatedGridLines) :
         feq(calculatedGridLines[i],
             fadd(FromInt(settings.lowerLimit),
                  fmulInt(calculateGridInterval(settings), i - 1)))
    /\ IntegerInterval(settings) =>
         /\ \A i \in 1..Len(calculatedGridLines) :
              feq(calculatedGridLines[i],
                  FromInt(settings.lowerLimit + (i - 1) *
                    ((settings.upperLimit - settings.lowerLimit) \div settings.gridNumber)))
         /\ \A i \in 1..(Len(calculatedGridLines) - 1) :
              feq(fsub(calculatedGridLines[i + 1], calculatedGridLines[i]),
                  calculateGridInterval(settings))
    /\ settings = defaultSettings =>
         calculatedGridLines = [i \in 1..11 |-> FromInt(25000 + 500 * (i - 1))]

\* C2 witness: the levels of the default configuration have been computed
C2_Witness ==
  /\ settings = defaultSettings
  /\ Len(calculatedGridLines) = 11
  /\ feq(calculatedGridLines[2], FromInt(25500))

(***************************************************************************)
(* The API secret, test mode and the proxy boundary.                       *)
(***************************************************************************)
\* a secret the operator has typed (the empty field is no secret)
Secrets ==
  ApiSecrets \ {""}

\* C4: in every reachable state the API secret is absent from localStorage
\* and from every log line
C4_SecretAbsentFromStorageAndLogs ==
  /\ gridBotApiSettings # NoItem => gridBotApiSettings[1].apiSecret \notin Secrets
  /\ binanceApiStore # NoItem => binanceApiStore[1].binanceApiSecret \notin Secrets
  /\ \A line \in consoleLog \cup proxyLog : line.strings \cap Secrets = {}

\* C5: every request the proxy accepts carries at most the API key, never
\* the secret, and no proxy log line contains the secret
C5_ProxyNeverReceivesSecret ==
  /\ proxyRequest # <<>> => proxyRequest[1].apiSecret \notin Secrets
  /\ \A line \in proxyLog : line.strings \cap Secrets = {}

\* C6: every exchange request issued while testMode is true, by the client
\* or by the proxy, targets the testnet base URL and never production
C6_TestModeTargetsTestnet ==
  \A i \in 1..Len(sentRequests) :
    sentRequests[i].testMode =>
      /\ sentRequests[i].base = TEST_API_BASE_URL
      /\ sentRequests[i].base \notin ProductionUrls

(***************************************************************************)
(* The running bot: bracket, stop commands and level crossings.            *)
(***************************************************************************)
\* the ids of the orders the bot lists as active
ActiveOrderIds ==
  {activeOrders[i].orderId : i \in 1..Len(activeOrders)}

\* the ids of the orders a sequence of order requests asks to cancel
CancelledIds(requests) ==
  {requests[i].orderId : i \in {j \in 1..Len(requests) : requests[j].kind = "cancel"}}

\* the requests of a sequence that place an order
CreateIntents(requests) ==
  {i \in 1..Len(requests) : requests[i].kind = "create"}

\* C7: a price observation at or beyond stopLoss or takeProfitLevel while
\* the bot is running halts the bot and sends a cancel for every open order
C7_BracketBreachHaltsAndCancels ==
  [][(isRunning /\ fetchPriceData
        /\ Breach(CurrentPrice(priceHistory'), settings))
       => (~isRunning' /\ ActiveOrderIds \subseteq CancelledIds(orderRequests'))]_vars

\* C8: once the bracket was breached in a run the bot stays halted and
\* emits no new order intent until the operator restarts it
C8_HaltedAfterBreachUntilRestart ==
  breachedThisRun => (~isRunning /\ CreateIntents(orderRequests) = {})

\* C9: the emergency stop reports that all orders were cancelled only when
\* a cancel was sent for every open order, and then no order is listed active
C9_StopReportsSuccessAfterCancellingAll ==
  alertMessage = "emergency stop: all orders were cancelled" =>
    /\ (exchangeOpenOrders \cup ActiveOrderIds) \subseteq CancelledIds(orderRequests)
    /\ activeOrders = <<>>

\* consecutive prices of the history pass the level from below
CrossesUpward(history, level) ==
  \E i \in 1..(Len(history) - 1) :
    flt(FromInt(history[i]), level) /\ flt(level, FromInt(history[i + 1]))

\* consecutive prices of the history pass the level from above
CrossesDownward(history, level) ==
  \E i \in 1..(Len(history) - 1) :
    flt(level, FromInt(history[i])) /\ flt(FromInt(history[i + 1]), level)

\* an order of the side rests at the level
Resting(side, level) ==
  \E i \in 1..Len(activeOrders) :
    activeOrders[i].side = side /\ activeOrders[i].price = level

\* the intents among the requests for the side at the level with the
\* quantity initialInvestment / gridNumber
IntentsAt(requests, side, level) ==
  {i \in CreateIntents(requests) :
     /\ requests[i].side = side
     /\ requests[i].price = level
     /\ requests[i].quantity =
          fdivInt(FromInt(settings.initialInvestment), settings.gridNumber)}

\* C10: when the observed prices cross a grid level upward and no SELL
\* rests there, exactly one SELL intent is emitted at that level with
\* quantity initialInvestment/gridNumber (a BUY for a downward crossing)
C10_CrossingEmitsExactlyOneIntent ==
  [][(isRunning /\ fetchPriceData) =>
       \A k \in 1..Len(calculatedGridLines) :
         LET level == calculatedGridLines[k]
         IN  /\ (CrossesUpward(priceHistory', level) /\ ~Resting("SELL", level))
                  => Cardinality(IntentsAt(orderRequests', "SELL", level)) = 1
             /\ (CrossesDownward(priceHistory', level) /\ ~Resting("BUY", level))
                  => Cardinality(IntentsAt(orderRequests', "BUY", level)) = 1]_vars

(***************************************************************************)
(* Orders and calls on the exchange client.                                *)
(***************************************************************************)
\* the calls that change the status of an order
StatusChanging ==
  {"createOrder", "cancelOrder"}

\* the requests on the wire that belong to call i
RequestsOf(i) ==
  {r \in 1..Len(wire) : wire[r].call = i}

\* C11: an order in a terminal state never changes its status, and an
\* attempt to transition a FILLED order fails with a logic error: it is
\* rejected without a request, never accepted or silently dropped
C11_FilledOrderTransitionFailsWithLogicError ==
  \A i \in 1..Len(calls) :
    (calls[i].method = "cancelOrder" /\ calls[i].heldStatus = "FILLED") =>
      /\ calls[i].state = "rejected"
      /\ calls[i].error = "LogicError"
      /\ RequestsOf(i) = {}

\* C12: at most one status-changing call per orderId is outstanding, and a
\* second call for the id made meanwhile is rejected with
\* OperationInProgress without a request
C12_OneOutstandingCallPerOrder ==
  \A i, j \in 1..Len(calls) :
    (/\ i < j
     /\ calls[i].method \in StatusChanging
     /\ calls[j].method \in StatusChanging
     /\ calls[i].orderId = calls[j].orderId
     /\ calls[i].orderId # NoOrder
     /\ calls[i].state = "outstanding")
      => (/\ calls[j].state = "rejected"
          /\ calls[j].error = "OperationInProgress"
          /\ RequestsOf(j) = {})

(***************************************************************************)
(* Failures, timeouts, signing and timestamps of exchange calls.           *)
(***************************************************************************)
BalanceCalls ==
  {"getAccountBalance", "balanceRoute"}

\* call i ended because its timer fired
TimedOut(i) ==
  /\ calls[i].state = "rejected"
  /\ calls[i].error.message \in {"request timed out", "timeout exceeded"}

\* C13: a balance call the exchange answers with 401 surfaces an
\* AuthenticationError and its request is sent exactly once
C13_Http401SurfacesAuthenticationError ==
  \A i \in 1..Len(calls) :
    (calls[i].method \in BalanceCalls /\ calls[i].answer = 401) =>
      /\ calls[i].state = "rejected"
      /\ calls[i].error.name = "AuthenticationError"
      /\ Cardinality(RequestsOf(i)) = 1
      /\ calls[i].attempts = 1

\* C14: a Timeout is surfaced only after the retry ceiling of three
\* timed-out attempts
C14_TimeoutSurfacedAfterThreeAttempts ==
  \A i \in 1..Len(calls) :
    TimedOut(i) => (calls[i].attempts = 3 /\ calls[i].error.name = "Timeout")

\* C15: every call waiting for the exchange is guarded by a timeout, and a
\* call ended by its timeout fails with Timeout, not with the failure of a
\* lost connection
C15_EveryCallGuardedByTimeout ==
  \A i \in 1..Len(calls) :
    /\ calls[i].state = "outstanding" => calls[i].timeoutArmed
    /\ TimedOut(i) => calls[i].error.name = "Timeout"

\* the secret a variant signs with
SecretOf(variant) ==
  IF variant = "proxy" THEN "S1" ELSE TestClient.apiSecret

\* C18: the query sent for an authenticated request is exactly the string
\* that was signed, followed by the signature parameter
C18_SignedStringIsWireString ==
  \A r \in 1..Len(wire) :
    wire[r].signature # "" =>
      /\ wire[r].signature =
           HmacSha256Hex(SecretOf(calls[wire[r].call].variant),
                         calls[wire[r].call].signed)
      /\ wire[r].query =
           calls[wire[r].call].signed \o "&signature=" \o wire[r].signature

\* a signed price request for a symbol that needs encoding is on the wire
C18_Witness ==
  \E r \in 1..Len(wire) :
    /\ calls[wire[r].call].method = "getCurrentPrice"
    /\ wire[r].query =
         "symbol=BTC%2FUSDT&timestamp=1&signature="
           \o "hmac(S1,symbol=BTC%2FUSDT&timestamp=1)"

\* C19: every authenticated call signs the clock value it read itself when
\* it was made, and sends nothing between reading the clock and signing
C19_TimestampReadByEachCall ==
  \A i \in 1..Len(calls) :
    calls[i].signed # "" =>
      /\ calls[i].timestamp = calls[i].startedAt
      /\ calls[i].method \in {"getAccountBalance", "validateCredentials",
                              "balanceRoute"}
           => calls[i].signed = "timestamp=" \o ToString(calls[i].startedAt)
      /\ calls[i].state = "signing" => RequestsOf(i) = {}

\* two authenticated calls made at different times are both on the wire
C19_Witness ==
  \E i, j \in 1..Len(calls) :
    /\ calls[i].signed # "" /\ calls[j].signed # ""
    /\ calls[i].startedAt = 0 /\ calls[j].startedAt = 1
    /\ calls[i].timestamp = 0 /\ calls[j].timestamp = 1
    /\ RequestsOf(i) # {} /\ RequestsOf(j) # {}

\* the failure of the initialisation's balance fetch has been shown to
\* the operator
BalanceFailureSurfaced ==
  LogLine("Error in balance fetch (handleApiError, alert)", {}) \in consoleLog

\* C16: a failing operation is not attempted without end: once the failure
\* of the balance fetch has been surfaced, the initialisation effect sends
\* no further balance request for the same credentials
C16_NoAttemptAfterFailureSurfaced ==
  [][(BalanceFailureSurfaced /\ \E ok \in BOOLEAN : ClientInitEffect(ok))
       => sentRequests' = <<>>]_vars

\* the browser holds a BinanceApiClient, which signs with the secret
LocalSigningActive ==
  binanceClient # <<>>

\* the proxy server has accepted a request and forwarded it to the exchange
ProxyAccessUsed ==
  proxyRequest # <<>>

\* C20: one exchange-access implementation per deployment: the locally
\* signing client and the server proxy are never both in use
C20_ExactlyOneAccessImplementation ==
  ~(LocalSigningActive /\ ProxyAccessUsed)



\* C21 (as stated): after any sequence of configuration updates every grid
\* level set the application holds, the gridLines state and the levels of
\* the render, equals the level computation applied to the current
\* configuration, and is not left stale or empty while the configuration
\* is valid.
C21_HeldLevelsFollowConfiguration ==
  (~mountError /\ ValidConfiguration(settings))
    => /\ calculatedGridLines = calculateGridLines(settings)
       /\ gridLines = calculateGridLines(settings)

\* C21 (amended): the levels computed by each render equal the level
\* computation applied to the hook's current settings after every update;
\* the gridLines state is never assigned and stays empty.
C21_RenderedLevelsFollowConfiguration ==
  /\ calculatedGridLines = calculateGridLines(settings)
  /\ gridLines = <<>>

\* the optimisation has replaced a configuration that was edited in the
\* form, and the fifteen levels of the new configuration are in place
C21_Witness ==
  /\ settings.gridNumber = 14
  /\ localSettings.gridNumber = 4
  /\ Len(calculatedGridLines) = 15
  /\ feq(calculatedGridLines[1], FromInt(24500))

\* C22: there is a single authoritative grid configuration: the form's
\* localSettings, the hook's settings and the persisted gridBotSettings
\* agree on every field after any sequence of edits, hook updates,
\* optimisation runs and the initial load from storage.
C22_SingleAuthoritativeConfiguration ==
  ~mountError
    => /\ localSettings = settings
       /\ (gridBotSettings # NoItem /\ gridBotSettings # <<Corrupt>>)
            => Spread(defaultSettings, gridBotSettings[1]) = settings

\* a balance fetch of the last step was answered by the exchange
BalanceFetched ==
  /\ LogLine("Balance fetched successfully", {}) \in consoleLog
  /\ \E i \in 1..Len(sentRequests) : sentRequests[i].path = "/balance"

\* C23: the balance state changes only when a balance fetch completes
\* successfully: a failed or skipped balance fetch and every other
\* operation (credentials, connection test, settings update, start/stop,
\* price poll) leave it unchanged.
C23_BalanceChangesOnlyByFetchedBalance ==
  [][balance' # balance => BalanceFetched']_vars

\* a fetched balance is shown while the bot runs on a price history
C23_Witness ==
  /\ balance = [base |-> 1, quote |-> 500]
  /\ isRunning
  /\ priceHistory # <<>>
  /\ ~BalanceFetched

\* C24: every failure of an exchange-access operation is signalled as a
\* structured error object carrying a kind and a message: the facade
\* operations never throw, return error = true with a kind and a message
\* on every failure, and error = false with data on success.
C24_FailuresAreStructuredErrors ==
  \A i \in 1..Len(facadeCalls) :
    LET call == facadeCalls[i]
    IN  /\ call.state # "threw"
        /\ call.outcome = "failure" =>
             /\ call.returned.error = TRUE
             /\ {"kind", "message"} \subseteq DOMAIN call.returned
        /\ call.outcome = "success" =>
             /\ call.returned.error = FALSE
             /\ "data" \in DOMAIN call.returned

\* apiKey, apiSecret or testMode is changed by the step
CredentialsChange ==
  \/ apiSettings'.apiKey # apiSettings.apiKey
  \/ apiSettings'.apiSecret # apiSettings.apiSecret
  \/ apiSettings'.testMode # apiSettings.testMode

\* C25: with complete and unchanged credentials the client initialisation
\* settles: once apiKey, apiSecret and testMode no longer change, the
\* initialisation effect is eventually no longer due, so that it builds no
\* further client and issues no further balance request.
C25_ClientInitialisationSettles ==
  <>[][~CredentialsChange]_vars => <>[](~clientEffectPending)

\* C26: after any sequence of updateSettings calls the pending autosave
\* timer holds the current settings (each update replaces the timer, so no
\* superseded value is written); when isDirty becomes false the persisted
\* gridBotSettings equals the current settings; and a dirty state is
\* followed by a save (isDirty false) or by a failed storage write (dirty
\* with no timer left).
C26_AutosavePersistsCurrentSettings ==
  /\ [](autosaveTimer # NoTimer => (isDirty /\ autosaveTimer[1] = settings))
  /\ [][(isDirty /\ ~isDirty') => gridBotSettings' = <<settings'>>]_vars
  /\ isDirty ~> (~isDirty \/ autosaveTimer = NoTimer)

\* two fields were updated one after the other and the autosave has
\* written the result
C26_Witness ==
  /\ ~isDirty
  /\ settings.upperLimit # defaultSettings.upperLimit
  /\ settings.gridNumber # defaultSettings.gridNumber
  /\ gridBotSettings = <<settings>>

\* C27: at most one debounce timer is pending for the field; no typed
\* value is handed to the parent both by the debounce timer and by blur;
\* no onChange is delivered after the field is unmounted.
C27_OneTimerOneDeliveryPath ==
  /\ Cardinality(pendingTimers) <= 1
  /\ \A i, j \in 1..Len(delivered) :
       ~(/\ delivered[i].typed # 0
         /\ delivered[i].typed = delivered[j].typed
         /\ delivered[i].by = "timer"
         /\ delivered[j].by = "blur")
  /\ \A i \in 1..Len(delivered) : delivered[i].mounted

\* the signed account request of call i is on the wire
AccountRequestSent(i) ==
  \E r \in 1..Len(wire) :
    /\ wire[r].call = i
    /\ wire[r].path = "/account"
    /\ wire[r].signature = HmacSha256Hex(TestClient.apiSecret, calls[i].signed)

\* C28: validateCredentials never throws; it returns true only when the
\* exchange answered the signed account request with a success status,
\* and false for a non-success status, a network failure and a signing
\* failure.
C28_ValidateCredentialsNeverThrows ==
  \A i \in 1..Len(calls) :
    calls[i].method = "validateCredentials" =>
      /\ calls[i].state # "rejected"
      /\ calls[i].result = "true" => (calls[i].answer = 200 /\ AccountRequestSent(i))
      /\ (calls[i].state = "resolved" /\ calls[i].answer # 200)
           => calls[i].result = "false"

\* one validation failed while signing, without a request, and another
\* was answered with success
C28_Witness ==
  \E i, j \in 1..Len(calls) :
    /\ calls[i].method = "validateCredentials"
    /\ calls[i].state = "resolved" /\ calls[i].result = "false"
    /\ ~AccountRequestSent(i)
    /\ calls[j].method = "validateCredentials"
    /\ calls[j].state = "resolved" /\ calls[j].result = "true"

\* the grid settings are the ones loading yields from the stored item:
\* defaults (with initialSettings) for a missing or unparseable item, the
\* saved fields over the defaults otherwise; stated for the renders in
\* which nothing has been changed since
GridSettingsAsLoaded ==
  ~isDirty => settings = loadSettings(gridBotSettings, initialSettings)

\* the api settings are the empty form when the stored item is missing
\* or unparseable
ApiSettingsFallBack ==
  (gridBotApiSettings = NoItem \/ gridBotApiSettings = <<Corrupt>>)
     => apiSettings = defaultApiSettings

\* C29: unparseable persisted data never aborts initialisation: with
\* invalid JSON under gridBotSettings or gridBotApiSettings loading falls
\* back to the defaults (merged with initialSettings) without throwing,
\* and valid saved grid settings override defaults and initialSettings.
C29_CorruptStorageNeverAbortsInitialisation ==
  /\ ~mountError
  /\ GridSettingsAsLoaded
  /\ ApiSettingsFallBack

\* the proxy has sent a request to the exchange for call i
ExchangeRequestSent(i) ==
  \E r \in 1..Len(wire) : wire[r].call = i

\* the proxy has answered call i
Responded(i) ==
  calls[i].state \in {"resolved", "rejected"}

\* the response of the proxy to call i fits what the exchange did
ResponseFitsExchange(i) ==
  /\ calls[i].state = "resolved" =>
       (calls[i].result = "data" /\ calls[i].answer = 200 /\ ExchangeRequestSent(i))
  /\ (calls[i].state = "rejected" /\ calls[i].answer # 0) =>
       calls[i].error.status = calls[i].answer
  /\ (calls[i].state = "rejected" /\ calls[i].answer = 0 /\ ExchangeRequestSent(i)) =>
       calls[i].error.status = 500

\* C30: GET /api/balance answers 400 and sends nothing to the exchange
\* whenever apiKey or apiSecret is missing; otherwise every proxy request
\* produces exactly one response: the exchange body on success, the
\* exchange's status on an exchange error, 500 without exchange response.
C30_ProxyAnswersEveryRequestOnce ==
  /\ [][\A apiKey \in QueryKeys, apiSecret \in QuerySecrets :
          (ProxyBalanceRequest(apiKey, apiSecret) /\ (apiKey = "" \/ apiSecret = ""))
            => /\ wire' = wire
               /\ calls'[Len(calls')].state = "rejected"
               /\ calls'[Len(calls')].error.status = 400]_vars
  /\ [](\A i \in 1..Len(calls) :
          (calls[i].variant = "proxy" /\ ~ExchangeRequestSent(i))
            => (calls[i].state = "rejected" /\ calls[i].error.status = 400))
  /\ [](\A i \in 1..Len(calls) : calls[i].variant = "proxy" => ResponseFitsExchange(i))
  /\ [][\A i \in 1..Len(calls) :
          (calls[i].variant = "proxy" /\ Responded(i)) => calls'[i] = calls[i]]_vars
  /\ \A i \in 1..MaxRequests :
       (Len(calls) >= i /\ calls[i].variant = "proxy") ~> (Len(calls) >= i /\ Responded(i))

\* one request was refused with 400 without a request to the exchange,
\* and another forwarded the exchange's 401
C30_Witness ==
  \E i, j \in 1..Len(calls) :
    /\ calls[i].variant = "proxy" /\ calls[i].method = "balanceRoute"
    /\ calls[i].state = "rejected" /\ calls[i].error.status = 400
    /\ ~ExchangeRequestSent(i)
    /\ calls[j].variant = "proxy"
    /\ calls[j].state = "rejected" /\ calls[j].answer = 401
    /\ calls[j].error.status = 401

====
